---- MODULE Spec2Model ----
(***************************************************************************)
(* Inheritance resolution, dependency graph and dict cache of cobbler      *)
(* items (cobbler/items/abstract/{base_item,item,item_inheritable}.py).    *)
(***************************************************************************)
EXTENDS Integers, Sequences, FiniteSets, TLC

VARIABLES
    objs,          \* the item objects that exist
    listing,       \* listing[t][n]: the item registered under name n in collection t
    name,          \* BaseItem._name
    parent,        \* Item._parent (a name, "" = no parent)
    depth,         \* Item._depth
    attr,          \* the other private fields that are part of to_dict
    inmemory,      \* Item._inmemory
    hasInit,       \* Item._has_initialized: "unset", "false" or "true"
    cache,         \* ItemCache: cache[i].raw / cache[i].res, NoDict when empty
    settings,      \* the fields the settings object has, with their values
    cache_enabled, \* settings.cache_enabled
    ctor,          \* the constructor call in progress
    last,          \* the last operation and what it returned
    nops,          \* number of operations performed so far
    uid,           \* BaseItem._uid
    call,          \* the to_dict call that has hydrated its item and not yet returned
    lock,          \* collection.lock: the thread that holds it, "" if none
    thr,           \* the position of each thread in the uid setter
    isc            \* the DHCP manager (_IscManager), its settings and its system

\* the state that the operations on attributes, cache and graph leave alone
\* the lock of the collection and the threads that take it
lockVars == <<lock, thr>>

envVars == <<uid, call, lockVars, isc>>

vars == <<objs, listing, name, parent, depth, attr, inmemory, hasInit, cache,
          settings, cache_enabled, ctor, last, nops, envVars>>

-----------------------------------------------------------------------------
(* Bounds *)

MaxOps == 3

-----------------------------------------------------------------------------
(* Values.  Every Python value is a record [k, v]; two values of different *)
(* kinds are different, as `==` between a str and a list or dict is False. *)

Inh == [k |-> "inh", v |-> "<<inherit>>"]
Str(s) == [k |-> "str", v |-> s]
List(q) == [k |-> "list", v |-> q]
Dict(f) == [k |-> "dict", v |-> f]
IntV(n) == [k |-> "int", v |-> n]
Enum(s) == [k |-> "enum", v |-> s]
Absent == [k |-> "absent", v |-> ""]

EmptyDict == [x \in {} |-> ""]
DELETE == "<<delete>>"
NoItem == "none"
NoDict == [k |-> "nodict", v |-> ""]

ItemIds == {"m1", "d1", "g1", "p1", "p2", "p3", "p4", "s1"}
Names == ItemIds

\* TYPE_NAME / COLLECTION_TYPE of the class of each object
TypeOf(i) ==
    CASE i = "m1" -> "mgmtclass"
      [] i = "d1" -> "distro"
      [] i = "g1" -> "image"
      [] i = "s1" -> "system"
      [] OTHER -> "profile"

GENERIC == "generic"

\* uuid.uuid4().hex of BaseItem.__init__: one value per object
NewUid(i) == "uid-" \o i

\* no DHCP manager has been created
NoManager == [k |-> "none"]

Threads == {"t1", "t2"}

\* a thread that is not inside the uid setter
NoThread == [pc |-> "idle", item |-> "", arg |-> ""]

\* no to_dict call is between its hydration and its return
NoCall == [pc |-> "idle"]

\* the state outside the item graph when nothing has happened to it
EnvIdle ==
    /\ uid = [i \in ItemIds |-> NewUid(i)]
    /\ call = NoCall
    /\ lock = ""
    /\ thr = [t \in Threads |-> NoThread]
    /\ isc = NoManager

CollectionTypes ==
    {"package", "file", "mgmtclass", "repo", "distro", "menu", "profile",
     "image", "system"}

\* InheritableItem.TYPE_DEPENDENCIES; descendants and deserialize name the table
\* Item.TYPE_DEPENDENCIES, and this is the table they are taken to read
TYPE_DEPENDENCIES ==
    [t \in CollectionTypes |->
        CASE t = "package" -> << <<"mgmtclass", "packages">> >>
          [] t = "file" -> << <<"mgmtclass", "files">>, <<"image", "file">> >>
          [] t = "mgmtclass" -> << <<"distro", "mgmt_classes">>,
                                   <<"profile", "mgmt_classes">>,
                                   <<"system", "mgmt_classes">> >>
          [] t = "repo" -> << <<"profile", "repos">> >>
          [] t = "distro" -> << <<"profile", "distro">> >>
          [] t = "menu" -> << <<"menu", "parent">>, <<"image", "menu">>,
                              <<"profile", "menu">> >>
          [] t = "profile" -> << <<"profile", "parent">>, <<"system", "profile">> >>
          [] t = "image" -> << <<"system", "image">> >>
          [] OTHER -> << >>]

\* LOGICAL_INHERITANCE[t][0]: the previous-level types and the attribute leading there
LOGICAL_INHERITANCE ==
    [t \in {"distro", "profile", "image", "system"} |->
        CASE t = "profile" -> << <<"distro", "distro">> >>
          [] t = "system" -> << <<"image", "image">>, <<"profile", "profile">> >>
          [] OTHER -> << >>]

-----------------------------------------------------------------------------
(* The attribute schema *)

InheritableProps == {"owners", "mgmt_classes"}
InheritableDictProps ==
    {"kernel_options", "kernel_options_post", "autoinstall_meta",
     "mgmt_parameters", "fetchable_files"}
LazyProps == {"comment", "template_files", "boot_files"}

\* private fields every Item has besides _name, _parent and _depth
ItemFields == InheritableProps \cup InheritableDictProps \cup LazyProps

\* private fields the concrete classes add
TypeFields(t) ==
    CASE t = "profile" -> {"distro", "proxy", "virt_type", "autoinstall"}
      [] t = "system" -> {"profile", "image", "proxy", "virt_type", "autoinstall"}
      [] OTHER -> {}

AllFields ==
    ItemFields \cup {"distro", "profile", "image", "proxy", "virt_type", "autoinstall"}

ItemTypes == {"mgmtclass", "distro", "profile", "system", "image", "menu"}

FieldsOfType == [t \in ItemTypes |-> ItemFields \cup TypeFields(t)]

FieldsOf(i) == FieldsOfType[TypeOf(i)]

AttrsOfType ==
    [t \in ItemTypes |-> FieldsOfType[t] \cup {"uid", "name", "parent", "depth"}]

\* hasattr(obj, "_" + f) / hasattr(obj, f)
HasAttr(i, f) == f \in AttrsOfType[TypeOf(i)]

PrivateNames ==
    {"_" \o f : f \in AllFields \cup {"name", "parent", "depth", "children",
                                      "is_subobject", "ctime", "mtime", "uid",
                                      "last_cached_mtime", "cache",
                                      "supported_boot_loaders", "has_initialized",
                                      "inmemory"}}

\* Item.__is_dict_key: a private name that is not one of the excluded ones
IsDictKey(n) ==
    /\ n \in PrivateNames
    /\ n \notin {"_last_cached_mtime", "_cache", "_supported_boot_loaders",
                 "_has_initialized", "_inmemory"}

-----------------------------------------------------------------------------
(* Results of calls: a value, or the exception that was raised *)

Ok(x) == [st |-> "ok", v |-> x]
Raise(e) == [st |-> e, v |-> Absent]

Range(q) == {q[n] : n \in DOMAIN q}

\* the recursion depth after which Python gives up (RecursionError)
Fuel == Cardinality(ItemIds) + 1

\* iteration order of a collection
ItemOrder == <<"d1", "g1", "m1", "p1", "p2", "p3", "p4", "s1">>

-----------------------------------------------------------------------------
(* The registry *)

\* api.get_items(t).get(n)
Get(t, n) ==
    IF t \in DOMAIN listing /\ n \in DOMAIN listing[t] THEN listing[t][n] ELSE NoItem

\* the items of collection t
ItemsOf(t) ==
    IF t \in DOMAIN listing THEN Range(listing[t]) \ {NoItem} ELSE {}

\* the stored value of a private field
FieldValue(i, f) ==
    CASE f = "name" -> Str(name[i])
      [] f = "uid" -> Str(uid[i])
      [] f = "parent" -> Str(parent[i])
      [] f = "depth" -> IntV(depth[i])
      [] OTHER -> attr[i][f]

-----------------------------------------------------------------------------
(* Hierarchy and dependency graph (item_inheritable.py) *)

\* InheritableItem.parent (getter)
ParentOf(i) ==
    IF parent[i] = "" THEN NoItem ELSE Get(TypeOf(i), parent[i])

\* the while loop of get_conceptual_parent: climb to the root of the same type
RECURSIVE ClimbToRoot(_, _)
ClimbToRoot(curr, fuel) ==
    IF ParentOf(curr) = NoItem THEN curr
    ELSE IF fuel = 0 THEN NoItem
    ELSE ClimbToRoot(ParentOf(curr), fuel - 1)

\* the for loop looking at the first previous level only
FirstLevelOnly(curr, levels, n) ==
    IF n > Len(levels) THEN NoItem
    ELSE IF attr[curr][levels[n][2]].k = "str" /\ attr[curr][levels[n][2]].v # ""
    THEN Get(levels[n][1], attr[curr][levels[n][2]].v)
    ELSE NoItem

\* the for loop of get_conceptual_parent over LOGICAL_INHERITANCE[type][0]
RECURSIVE FirstPrevLevel(_, _, _)
FirstPrevLevel(curr, levels, n) ==
    IF n > Len(levels) THEN NoItem
    ELSE LET prev_level_type == levels[n][1]
             prev_level_name == attr[curr][levels[n][2]]
             prev_level_item ==
                 IF prev_level_name.k = "str" /\ prev_level_name.v # ""
                 THEN Get(prev_level_type, prev_level_name.v)
                 ELSE NoItem
         IN  IF prev_level_item # NoItem THEN prev_level_item
             ELSE FirstPrevLevel(curr, levels, n + 1)

\* InheritableItem.get_conceptual_parent
get_conceptual_parent(i) ==
    LET curr_obj == ClimbToRoot(i, Fuel)
    IN  IF curr_obj = NoItem THEN NoItem
        ELSE IF TypeOf(curr_obj) \in DOMAIN LOGICAL_INHERITANCE
        THEN FirstPrevLevel(curr_obj, LOGICAL_INHERITANCE[TypeOf(curr_obj)], 1)
        ELSE NoItem

\* InheritableItem.logical_parent
logical_parent(i) ==
    LET p == ParentOf(i)
    IN  IF p = NoItem THEN get_conceptual_parent(i) ELSE p

\* InheritableItem.children
children(i) ==
    SelectSeq(ItemOrder,
              LAMBDA o : o \in ItemsOf(TypeOf(i)) /\ parent[o] = name[i])

\* InheritableItem.tree_walk; the recursion ends when Python's stack does
RECURSIVE tree_walk_f(_, _)
RECURSIVE walk_children(_, _)
RECURSIVE walk_siblings_first(_, _)
\* the loop of tree_walk listing the remaining children before a child's subtree
walk_siblings_first(cs, fuel) ==
    IF cs = <<>> THEN <<>>
    ELSE <<Head(cs)>> \o walk_siblings_first(Tail(cs), fuel) \o tree_walk_f(Head(cs), fuel)

walk_children(cs, fuel) ==
    IF cs = <<>> THEN <<>>
    ELSE <<Head(cs)>> \o tree_walk_f(Head(cs), fuel) \o walk_children(Tail(cs), fuel)

tree_walk_f(i, fuel) ==
    IF fuel = 0 THEN <<>> ELSE walk_children(children(i), fuel - 1)

tree_walk(i) == tree_walk_f(i, Fuel)

\* api.find_items(t, {a: n}, return_list=True): the items of collection t whose
\* stored attribute a references the name n
find_items(t, a, n) ==
    {o \in ItemsOf(t) :
        /\ HasAttr(o, a)
        /\ LET val == FieldValue(o, a)
           IN  \/ val.k = "str" /\ val.v = n
               \/ val.k = "list" /\ n \in Range(val.v)}

\* descendants without the descendants of the dependent items
descendants_direct(i, fuel) ==
    IF fuel = 0 THEN {}
    ELSE LET walked == tree_walk(i)
             childs == Append(walked, i)
             deps(child) ==
                 UNION {find_items(d[1], d[2], name[child]) :
                            d \in Range(TYPE_DEPENDENCIES[TypeOf(child)])}
         IN  Range(walked) \cup UNION {deps(child) : child \in Range(childs)}

\* InheritableItem.descendants
RECURSIVE descendants_f(_, _)
descendants_f(i, fuel) ==
    IF fuel = 0 THEN {}
    ELSE LET walked == tree_walk(i)
             childs == Append(walked, i)
             deps(child) ==
                 UNION {find_items(d[1], d[2], name[child]) :
                            d \in Range(TYPE_DEPENDENCIES[TypeOf(child)])}
         IN  Range(walked) \cup
             UNION {deps(child) \cup UNION {descendants_f(x, fuel - 1) : x \in deps(child)} :
                        child \in Range(childs)}

descendants(i) == descendants_f(i, Fuel)

-----------------------------------------------------------------------------
(* Attribute resolution (item.py) *)

\* the property names that start with "proxy_url_"
ProxyUrlNames == {"proxy_url_" \o s : s \in {"int", "ext"}}

\* property_name.startswith("proxy_url_")
StartsWithProxyUrl(property_name) == property_name \in ProxyUrlNames

\* utils.dict_annihilate: a key marked for deletion is removed from the mapping
dict_annihilate(f) ==
    [x \in {y \in DOMAIN f : f[y] # DELETE} |-> f[x]]

\* dict.update
dict_update(f, g) ==
    [x \in DOMAIN f \cup DOMAIN g |-> IF x \in DOMAIN g THEN g[x] ELSE f[x]]

\* enum_type.to_enum
to_enum(val) == Enum(val.v)

RECURSIVE resolve_f(_, _, _)
RECURSIVE resolve_enum_f(_, _, _)
RECURSIVE resolve_dict_f(_, _, _)
RECURSIVE getattr_f(_, _, _)

\* getattr(obj, property_name): the property getter of the class
getattr_f(i, property_name, fuel) ==
    IF ~HasAttr(i, property_name) THEN Raise("AttributeError")
    ELSE IF fuel = 0 THEN Raise("RecursionError")
    ELSE CASE property_name \in InheritableProps \cup {"proxy"} ->
                  resolve_f(i,
                            IF property_name = "proxy" THEN "proxy_url_int"
                            ELSE property_name,
                            fuel - 1)
           [] property_name \in InheritableDictProps \cup {"boot_files"} ->
                  resolve_dict_f(i, property_name, fuel - 1)
           [] property_name = "virt_type" -> resolve_enum_f(i, "virt_type", fuel - 1)
           [] OTHER -> Ok(FieldValue(i, property_name))

\* hasattr(obj, property_name) is getattr_f(obj, property_name, fuel).st # "AttributeError":
\* the getter runs, and only an AttributeError makes hasattr answer False.

\* getattr(logical_parent, property_name), asked only if logical_parent is not None
\* and hasattr(logical_parent, property_name); AttributeError stands for "not asked"
parent_value(lp, property_name, fuel) ==
    IF lp = NoItem THEN Raise("AttributeError") ELSE getattr_f(lp, property_name, fuel)

\* the inherited branch with the settings asked before the logical parent
resolve_settings_first(from_parent, settings_name, attribute_value) ==
    IF settings_name \in DOMAIN settings THEN Ok(settings[settings_name])
    ELSE IF ("default_" \o settings_name) \in DOMAIN settings
    THEN Ok(settings["default_" \o settings_name])
    ELSE IF from_parent.st # "AttributeError" THEN from_parent
    ELSE Ok(attribute_value)

\* the branch of _resolve taken for an inherited value: the parent, then the
\* settings, then the settings default; when nothing matches the AttributeError
\* is built, not raised, and the stored value is returned
resolve_inherited(from_parent, settings_name, attribute_value) ==
    IF from_parent.st # "AttributeError" THEN from_parent
    ELSE IF settings_name \in DOMAIN settings THEN Ok(settings[settings_name])
    ELSE IF ("default_" \o settings_name) \in DOMAIN settings
    THEN Ok(settings["default_" \o settings_name])
    ELSE Ok(attribute_value)

\* _resolve: property_name after the proxy_url_ replacement
resolve_property_name(property_name0) ==
    IF StartsWithProxyUrl(property_name0) THEN "proxy" ELSE property_name0

\* settings_name following the replacement of the proxy_url_ names as well
settings_name_replaced(property_name0) ==
    IF property_name0 = "owners" THEN "default_ownership"
    ELSE IF StartsWithProxyUrl(property_name0) THEN "proxy"
    ELSE property_name0

\* _resolve: settings_name; the name passed in is kept unless it is owners
resolve_settings_name(property_name0) ==
    IF property_name0 = "owners" THEN "default_ownership" ELSE property_name0

\* Item._resolve
resolve_f(i, property_name0, fuel) ==
    IF ~HasAttr(i, resolve_property_name(property_name0)) THEN Raise("AttributeError")
    ELSE IF FieldValue(i, resolve_property_name(property_name0)) = Inh
    THEN resolve_inherited(
             parent_value(logical_parent(i), resolve_property_name(property_name0), fuel),
             resolve_settings_name(property_name0),
             Inh)
    ELSE Ok(FieldValue(i, resolve_property_name(property_name0)))

\* the inherited branch of _resolve_enum: as in _resolve, with the settings value
\* converted by enum_type.to_enum
resolve_enum_inherited(from_parent, settings_name, attribute_value) ==
    IF from_parent.st # "AttributeError" THEN from_parent
    ELSE IF settings_name \in DOMAIN settings THEN Ok(to_enum(settings[settings_name]))
    ELSE IF ("default_" \o settings_name) \in DOMAIN settings
    THEN Ok(to_enum(settings["default_" \o settings_name]))
    ELSE Ok(attribute_value)

\* Item._resolve_enum
resolve_enum_f(i, property_name, fuel) ==
    IF ~HasAttr(i, property_name) THEN Raise("AttributeError")
    ELSE IF FieldValue(i, property_name) = Enum(Inh.v)
    THEN resolve_enum_inherited(
             parent_value(logical_parent(i), property_name, fuel),
             property_name,
             Enum(Inh.v))
    ELSE Ok(FieldValue(i, property_name))

\* _resolve_dict: the parent's resolved mapping, else the settings', else {}
dict_inherited(from_parent, property_name) ==
    IF from_parent.st # "AttributeError" THEN from_parent
    ELSE IF property_name \in DOMAIN settings THEN Ok(settings[property_name])
    ELSE Ok(Dict(EmptyDict))

\* the merge with the inherited mapping laid over the own value
dict_merge_parent_wins(inherited, attribute_value) ==
    IF inherited.st # "ok" THEN inherited
    ELSE IF attribute_value # Inh
    THEN Ok(Dict(dict_annihilate(dict_update(attribute_value.v, inherited.v.v))))
    ELSE Ok(Dict(dict_annihilate(inherited.v.v)))

\* the merge without the annihilation
dict_merge_keeps_marked(inherited, attribute_value) ==
    IF inherited.st # "ok" THEN inherited
    ELSE IF attribute_value # Inh
    THEN Ok(Dict(dict_update(inherited.v.v, attribute_value.v)))
    ELSE Ok(Dict(inherited.v.v))

\* _resolve_dict: the own value laid over the inherited mapping, then annihilated
dict_merge(inherited, attribute_value) ==
    IF inherited.st # "ok" THEN inherited
    ELSE IF attribute_value # Inh
    THEN Ok(Dict(dict_annihilate(dict_update(inherited.v.v, attribute_value.v))))
    ELSE Ok(Dict(dict_annihilate(inherited.v.v)))

\* Item._resolve_dict
resolve_dict_f(i, property_name, fuel) ==
    IF ~HasAttr(i, property_name) THEN Raise("AttributeError")
    ELSE dict_merge(
             dict_inherited(parent_value(logical_parent(i), property_name, fuel),
                            property_name),
             FieldValue(i, property_name))

_resolve(i, property_name) == resolve_f(i, property_name, Fuel)
_resolve_enum(i, property_name) == resolve_enum_f(i, property_name, Fuel)
_resolve_dict(i, property_name) == resolve_dict_f(i, property_name, Fuel)

-----------------------------------------------------------------------------
(* The dict cache (item.py, item_cache.py) *)

Slot(resolved) == IF resolved THEN "res" ELSE "raw"
Snap(f) == [k |-> "snap", v |-> f]
Failed(e) == [k |-> "error", v |-> e]
NoName == "None"

\* ItemCache.get_dict_cache
get_dict_cache(c, i, resolved) ==
    IF cache_enabled THEN c[i][Slot(resolved)] ELSE NoDict

\* ItemCache.set_dict_cache
set_dict_cache(c, i, value, resolved) ==
    IF cache_enabled THEN [c EXCEPT ![i][Slot(resolved)] = value] ELSE c

\* ItemCache.clean_dict_cache
clean_dict_cache(c, i) ==
    set_dict_cache(set_dict_cache(c, i, NoDict, TRUE), i, NoDict, FALSE)

\* isinstance(getattr(type(self), name[1:]), (InheritableProperty, InheritableDictProperty))
InheritableAttrNames ==
    {"_" \o f : f \in InheritableProps \cup InheritableDictProps}

IsInheritableAttr(n) == n \in InheritableAttrNames

\* api.get_items(self.COLLECTION_TYPE).get(self.name) is not None
Registered(i) == Get(TypeOf(i), name[i]) # NoItem

\* _clean_dict_cache without the loop over the descendants
clean_without_descendants(c, i, n) ==
    IF ~cache_enabled THEN c ELSE clean_dict_cache(c, i)

\* _clean_dict_cache that forgets the raw slot of the item itself
clean_keeps_own_raw(c, i, n) ==
    IF ~cache_enabled THEN c
    ELSE LET dep_items == descendants(i)
             invalidated ==
                 IF n # NoName /\ inmemory[i] /\ IsInheritableAttr(n) /\ Registered(i)
                 THEN [o \in DOMAIN c |->
                          IF o \in dep_items
                          THEN set_dict_cache(c, o, NoDict, TRUE)[o]
                          ELSE c[o]]
                 ELSE c
         IN  set_dict_cache(invalidated, i, NoDict, TRUE)

\* _clean_dict_cache that follows only the parent/child edges
clean_children_only(c, i, n) ==
    IF ~cache_enabled THEN c
    ELSE LET dep_items == Range(tree_walk(i))
             invalidated ==
                 IF n # NoName /\ inmemory[i] /\ IsInheritableAttr(n) /\ Registered(i)
                 THEN [o \in DOMAIN c |->
                          IF o \in dep_items
                          THEN set_dict_cache(c, o, NoDict, TRUE)[o]
                          ELSE c[o]]
                 ELSE c
         IN  clean_dict_cache(invalidated, i)

\* _clean_dict_cache that does not ask whether the item is registered
clean_unregistered_too(c, i, n) ==
    IF ~cache_enabled THEN c
    ELSE LET dep_items == descendants(i)
             invalidated ==
                 IF n # NoName /\ inmemory[i] /\ IsInheritableAttr(n)
                 THEN [o \in DOMAIN c |->
                          IF o \in dep_items
                          THEN set_dict_cache(c, o, NoDict, TRUE)[o]
                          ELSE c[o]]
                 ELSE c
         IN  clean_dict_cache(invalidated, i)

\* Item._clean_dict_cache
_clean_dict_cache(c, i, n) ==
    IF ~cache_enabled THEN c
    ELSE LET dep_items == descendants(i)
             invalidated ==
                 IF /\ n # NoName /\ inmemory[i]
                    /\ IsInheritableAttr(n)
                    /\ TypeOf(i) # GENERIC
                    /\ Registered(i)
                 THEN [o \in DOMAIN c |->
                          IF o \in dep_items
                          THEN set_dict_cache(c, o, NoDict, TRUE)[o]
                          ELSE c[o]]
                 ELSE c
         IN  clean_dict_cache(invalidated, i)

\* clean_cache without the in-memory test
clean_cache_unconditional(c, i, n) == _clean_dict_cache(c, i, n)

\* Item.clean_cache
clean_cache(c, i, n) ==
    IF inmemory[i] THEN _clean_dict_cache(c, i, n) ELSE c

\* Item.__setattr__: what the interception does to the cache before the assignment
setattr_cache(c, i, n) ==
    IF IsDictKey(n) /\ hasInit[i] = "true" THEN clean_cache(c, i, n) ELSE c

\* the projection that gives the value of the getter whatever resolved says
to_dict_value_resolving(key_value, got, resolved) ==
    CASE key_value.k = "enum" -> IF got.st = "ok" THEN Ok(Str(got.v.v)) ELSE got
      [] key_value.k = "list" -> Ok(key_value)
      [] key_value.k = "dict" -> got
      [] key_value.k = "inh" -> got
      [] OTHER -> Ok(key_value)

\* the projection loop of Item.to_dict: the entry for a stored value key_value,
\* where got is what the property getter returns
to_dict_value(key_value, got, resolved) ==
    CASE key_value.k = "enum" ->
             IF resolved
             THEN IF got.st = "ok" THEN Ok(Str(got.v.v)) ELSE got
             ELSE Ok(Str(key_value.v))
      [] key_value.k = "list" -> Ok(key_value)
      [] key_value.k = "dict" -> IF resolved THEN got ELSE Ok(key_value)
      [] key_value.k = "inh" /\ resolved -> got
      [] OTHER -> Ok(key_value)

to_dict_entry(i, f, resolved) ==
    to_dict_value(FieldValue(i, f), getattr_f(i, f, Fuel), resolved)

DictKeys(i) == AttrsOfType[TypeOf(i)]

\* the legacy names under which to_dict repeats an entry
LegacyAlias == [f \in {"kickstart", "ks_meta"} |->
                   IF f = "kickstart" THEN "autoinstall" ELSE "autoinstall_meta"]

\* the mapping built from the entries; a getter that raises ends the projection;
\* autoinstall and autoinstall_meta are also given under their old names
to_dict_collect(keys, value) ==
    IF \E f \in keys : value[f].st # "ok"
    THEN Failed(value[CHOOSE f \in keys : value[f].st # "ok"].st)
    ELSE Snap([f \in keys \cup {a \in DOMAIN LegacyAlias : LegacyAlias[a] \in keys} |->
                  IF f \in DOMAIN LegacyAlias THEN value[LegacyAlias[f]].v
                  ELSE value[f].v])

\* Item.to_dict without the cache: the mapping computed from the current state
to_dict_compute(i, resolved) ==
    to_dict_collect(DictKeys(i), [f \in DictKeys(i) |-> to_dict_entry(i, f, resolved)])

-----------------------------------------------------------------------------
(* Operations *)

Op(o, i, a, r, h) == [op |-> o, item |-> i, arg |-> a, out |-> r, hit |-> h]

\* the attributes whose setter is exercised on each item: owners and
\* kernel_options on every item, the other attributes on one or two items each
SetterFields(i) ==
    {"owners", "kernel_options"} \cup
    CASE i = "p1" -> {"mgmt_classes", "autoinstall_meta", "comment"}
      [] i = "p2" -> {"fetchable_files", "template_files"}
      [] OTHER -> {"kernel_options_post", "mgmt_parameters", "comment"}

\* the values the setters are called with
SetterInputs(f) ==
    CASE f = "owners" -> {List(<<"admin">>)}
      [] f = "mgmt_classes" -> {List(<<"m1">>)}
      [] f = "kernel_options" -> {Dict([x \in {"a"} |-> "1"])}
      [] f \in InheritableDictProps -> {Dict([x \in {"b"} |-> "2"])}
      [] f = "comment" -> {Str("c")}
      [] f = "template_files" -> {Dict([x \in {"t"} |-> "x"])}
      [] OTHER -> {}

\* a property setter of Item: the assignment to the private field goes through
\* Item.__setattr__
SetAttr(i, f, val) ==
    /\ nops < MaxOps
    /\ hasInit[i] # "unset"
    /\ cache' = setattr_cache(cache, i, "_" \o f)
    /\ attr' = [attr EXCEPT ![i][f] = val]
    /\ last' = Op("setattr", i, f, NoDict, FALSE)
    /\ nops' = nops + 1
    /\ UNCHANGED <<envVars, objs, listing, name, parent, depth, inmemory, hasInit, settings,
                   cache_enabled, ctor>>

\* the item and its logical ancestors are in memory: to_dict needs no deserialize
RECURSIVE hydrated_f(_, _)
hydrated_f(i, fuel) ==
    /\ inmemory[i]
    /\ LET lp == logical_parent(i)
       IN  IF lp = NoItem \/ fuel = 0 THEN TRUE ELSE hydrated_f(lp, fuel - 1)

Hydrated(i) == hydrated_f(i, Fuel)

\* to_dict that never stores what it computed
ToDictWithoutStore(i, resolved) ==
    /\ nops < MaxOps
    /\ Hydrated(i)
    /\ cache' = cache
    /\ last' = Op("to_dict", i, Slot(resolved), to_dict_compute(i, resolved), FALSE)
    /\ nops' = nops + 1
    /\ UNCHANGED <<envVars, objs, listing, name, parent, depth, attr, inmemory, hasInit,
                   settings, cache_enabled, ctor>>

\* Item.to_dict on an item that is in memory
ToDict(i, resolved) ==
    /\ nops < MaxOps
    /\ Hydrated(i)
    /\ IF get_dict_cache(cache, i, resolved) # NoDict
       THEN /\ cache' = cache
            /\ last' = Op("to_dict", i, Slot(resolved),
                          get_dict_cache(cache, i, resolved), TRUE)
       ELSE \E value \in {to_dict_compute(i, resolved)} :
                /\ cache' = IF value.k = "snap"
                            THEN set_dict_cache(cache, i, value, resolved)
                            ELSE cache
                /\ last' = Op("to_dict", i, Slot(resolved), value, FALSE)
    /\ nops' = nops + 1
    /\ UNCHANGED <<envVars, objs, listing, name, parent, depth, attr, inmemory, hasInit,
                   settings, cache_enabled, ctor>>

\* Item.clean_cache called directly
CleanCache(i, n) ==
    /\ nops < MaxOps
    /\ cache' = clean_cache(cache, i, n)
    /\ last' = Op("clean_cache", i, n, NoDict, FALSE)
    /\ nops' = nops + 1
    /\ UNCHANGED <<envVars, objs, listing, name, parent, depth, attr, inmemory, hasInit,
                   settings, cache_enabled, ctor>>

\* Item.inmemory (setter)
SetInmemory(i, b) ==
    /\ nops < MaxOps
    /\ inmemory[i] # b
    /\ cache' = setattr_cache(cache, i, "_inmemory")
    /\ inmemory' = [inmemory EXCEPT ![i] = b]
    /\ last' = Op("inmemory", i, "", NoDict, FALSE)
    /\ nops' = nops + 1
    /\ UNCHANGED <<envVars, objs, listing, name, parent, depth, attr, hasInit,
                   settings, cache_enabled, ctor>>

-----------------------------------------------------------------------------------------------------------------------------------------------------
(* The item graphs the cache is exercised on: sub-profile p2 of profile p1,  *)
(* with either the distro d1 of p1 or a management class m1 that p1 uses.    *)

DefaultAttr(i) ==
    [f \in FieldsOf(i) |->
             CASE f \in InheritableProps -> Inh
               [] f \in InheritableDictProps \cup {"template_files", "boot_files"} ->
                      Dict(EmptyDict)
               [] f = "proxy" -> Inh
               [] f = "virt_type" -> Enum(Inh.v)
               [] OTHER -> Str("")]

DefaultSettings ==
    [f \in {"default_ownership", "mgmt_classes", "kernel_options", "proxy_url_int",
            "default_virt_type"} |->
        CASE f = "default_ownership" -> List(<<"root">>)
          [] f = "mgmt_classes" -> List(<<>>)
          [] f = "kernel_options" -> Dict([x \in {"s"} |-> "0"])
          [] f = "proxy_url_int" -> Str("http://proxy")
          [] OTHER -> Str("kvm")]

\* no constructor call in progress
NoKwargs == [x \in {} |-> Absent]
Idle == [pc |-> "idle", item |-> NoItem, kwargs |-> NoKwargs, cleaned |-> {},
         direct |-> FALSE, err |-> ""]

\* the collections with exactly the items of reg registered under their names
ListingOf(reg) ==
    [t \in CollectionTypes |->
        [n \in Names |-> IF n \in reg /\ TypeOf(n) = t THEN n ELSE NoItem]]

Scenarios ==
    {[objs |-> {"d1", "p1", "p2"}, reg |-> {"d1", "p1", "p2"}, enabled |-> TRUE],
     [objs |-> {"m1", "p1", "p2"}, reg |-> {"m1", "p1", "p2"}, enabled |-> TRUE],
     [objs |-> {"m1", "p1", "p2"}, reg |-> {"p1", "p2"}, enabled |-> TRUE],
     [objs |-> {"d1", "p1", "p2"}, reg |-> {"d1", "p1", "p2"}, enabled |-> FALSE]}

InitGraph(sc) ==
    /\ objs = sc.objs
    /\ listing = ListingOf(sc.reg)
    /\ name = [i \in ItemIds |-> i]
    /\ parent = [i \in ItemIds |-> IF i = "p2" THEN "p1" ELSE ""]
    /\ depth = [i \in ItemIds |-> IF i = "p2" THEN 1 ELSE 0]
    /\ attr = [i \in ItemIds |->
                  IF i = "p1"
                  THEN [DefaultAttr(i) EXCEPT
                            !["distro"] = Str("d1"),
                            !["mgmt_classes"] =
                                IF "m1" \in sc.objs THEN List(<<"m1">>) ELSE Inh]
                  ELSE DefaultAttr(i)]
    /\ inmemory = [i \in ItemIds |-> TRUE]
    /\ hasInit = [i \in ItemIds |-> "true"]
    /\ cache = [i \in ItemIds |-> [raw |-> NoDict, res |-> NoDict]]
    /\ settings = DefaultSettings
    /\ cache_enabled = sc.enabled
    /\ ctor = Idle
    /\ last = Op("init", NoItem, "", NoDict, FALSE)
    /\ nops = 0
    /\ EnvIdle

Init == \E sc \in Scenarios : InitGraph(sc)

Next ==
    \/ \E i \in objs : \E f \in SetterFields(i) : \E val \in SetterInputs(f) :
           SetAttr(i, f, val)
    \/ \E i \in objs, resolved \in BOOLEAN : ToDict(i, resolved)

Spec == Init /\ [][Next]_vars

CleanNames == {NoName, "_owners"}

\* the fields written while the in-memory flags change
MemFields(i) ==
    CASE i = "d1" -> {"kernel_options", "comment"}
      [] i = "m1" -> {"owners", "comment"}
      [] i = "p1" -> {"owners", "mgmt_classes"}
      [] OTHER -> {"comment"}

NextMem ==
    \/ \E i \in objs : \E f \in MemFields(i) : \E val \in SetterInputs(f) :
           SetAttr(i, f, val)
    \/ \E i \in objs, resolved \in BOOLEAN : ToDict(i, resolved)
    \/ \E i \in objs, n \in CleanNames : CleanCache(i, n)
    \/ \E i \in objs, b \in BOOLEAN : SetInmemory(i, b)

SpecMem == Init /\ [][NextMem]_vars

-----------------------------------------------------------------------------
(* Properties of the dict cache *)

EmptySlots == [raw |-> NoDict, res |-> NoDict]

\* the step just taken is the write of field f of item i
WriteStep(i, f) ==
    /\ nops' = nops + 1
    /\ last'.op = "setattr" /\ last'.item = i /\ last'.arg = f

\* the fields whose property is an InheritableProperty or InheritableDictProperty
InheritableFields == InheritableProps \cup InheritableDictProps

\* C1: with caching enabled, for every registered in-memory item I and every C in
\* descendants(I), whatever writes were made to the inheritable attributes, a
\* populated resolved memo of C (what the next C.to_dict(resolved=True) returns)
\* equals the mapping computed afresh from the current state.
C1_ResolvedViewFresh ==
    cache_enabled =>
        \A i \in objs :
            (Registered(i) /\ inmemory[i]) =>
                \A c \in descendants(i) :
                    cache[c].res # NoDict => cache[c].res = to_dict_compute(c, TRUE)

\* d1's kernel_options were written and p2, two levels below, then recomputed its
\* resolved view, which shows the key that p2 does not store itself
C1_Witness ==
    /\ cache_enabled
    /\ attr["d1"]["kernel_options"] = Dict([x \in {"a"} |-> "1"])
    /\ "p2" \in descendants("d1")
    /\ attr["p2"]["kernel_options"] = Dict(EmptyDict)
    /\ last.op = "to_dict" /\ last.item = "p2" /\ last.arg = "res" /\ ~last.hit
    /\ last.out.k = "snap"
    /\ "a" \in DOMAIN last.out.v["kernel_options"].v
    /\ cache["p2"].res = last.out

\* C2: with caching enabled, right after a private-field write on an initialized
\* in-memory item, both memo slots of that item are empty.
C2_OwnSlotsCleared ==
    [][\A i \in objs : \A f \in AllFields :
          (WriteStep(i, f) /\ cache_enabled /\ inmemory[i] /\ hasInit[i] = "true")
              => cache'[i] = EmptySlots]_vars

\* the comment (not inheritable) of p1 was written as third operation, and all
\* memo slots are empty although two operations came before
C2_Witness ==
    /\ cache_enabled
    /\ last.op = "setattr" /\ last.arg = "comment" /\ last.item = "p1"
    /\ nops = 3
    /\ attr["p1"]["owners"] = Inh /\ attr["p1"]["kernel_options"] = Dict(EmptyDict)
    /\ \A o \in objs : cache[o] = EmptySlots /\ (o # "p1" => attr[o]["comment"] = Str(""))

\* C6: with caching enabled, the second of two consecutive to_dict calls on the
\* same in-memory item in the same mode returns the mapping the first returned, from
\* the memo slot: nothing is computed and nothing is stored.
C6_SecondCallFromCache ==
    [][\A i \in objs :
          (/\ last.op = "to_dict" /\ last.item = i /\ last.out.k = "snap"
           /\ last'.op = "to_dict" /\ last'.item = i /\ last'.arg = last.arg
           /\ nops' = nops + 1
           /\ cache_enabled /\ inmemory[i])
              => (last'.hit /\ last'.out = last.out /\ cache' = cache)]_vars

\* a resolved view of p2 was returned from the memo slot
C6_Witness ==
    /\ cache_enabled
    /\ last.op = "to_dict" /\ last.item = "p2" /\ last.arg = "res" /\ last.hit
    /\ last.out = cache["p2"].res

\* C3 as stated: after a write to an inheritable attribute of a registered item of a
\* concrete collection type, every member of descendants(I) has an empty resolved
\* memo slot, whatever the in-memory flag of I.
C3_AsStated ==
    [][\A i \in objs : \A f \in InheritableFields :
          (WriteStep(i, f) /\ hasInit[i] = "true" /\ TypeOf(i) # GENERIC /\ Registered(i))
              => \A o \in descendants(i) : cache'[o].res = NoDict]_vars

\* C3: with caching enabled, after a write to an inheritable attribute of a
\* registered in-memory item of a concrete collection type, every member of
\* descendants(I), those reached through cross-type dependencies included, has an
\* empty resolved memo slot.
C3_DescendantsCleared ==
    [][\A i \in objs : \A f \in InheritableFields :
          (/\ WriteStep(i, f) /\ hasInit[i] = "true"
           /\ cache_enabled /\ inmemory[i]
           /\ TypeOf(i) # GENERIC /\ Registered(i))
              => \A o \in descendants(i) : cache'[o].res = NoDict]_vars

\* the owners of the registered in-memory management class m1 were written as the
\* third operation; the profile p1 that lists m1 is a descendant only through the
\* type dependencies, and its memo is empty although two operations came before
C3_Witness ==
    /\ cache_enabled
    /\ last.op = "setattr" /\ last.item = "m1" /\ last.arg = "owners"
    /\ inmemory["m1"] /\ Registered("m1")
    /\ "p1" \in descendants("m1") /\ parent["p1"] = ""
    /\ nops = 3
    /\ \A o \in objs : cache[o] = EmptySlots
    /\ \A o \in objs \ {"m1"} : attr[o] = DefaultAttr(o) \/ o \in {"p1"}

C5_CleanCacheNoOp ==
    [][\A i \in objs :
          (/\ nops' = nops + 1
           /\ last'.op = "clean_cache" /\ last'.item = i
           /\ (~cache_enabled \/ ~inmemory[i]))
              => cache' = cache]_vars

\* clean_cache was called for the inheritable field _owners on d1, which is not in
\* memory, and the resolved memo of d1 is still populated
C5_Witness ==
    /\ cache_enabled
    /\ last.op = "clean_cache" /\ last.item = "d1" /\ last.arg = "_owners"
    /\ ~inmemory["d1"]
    /\ cache["d1"].res # NoDict

-----------------------------------------------------------------------------
(* Construction of an item: BaseItem.__init__, Item.__init__ with the seeding *)
(* from_dict, InheritableItem.__init__.  ctor.cleaned collects the names for  *)
(* which a field write of the constructor called clean_cache, ctor.direct     *)
(* tells that from_dict called clean_cache() itself.                          *)

\* Item.__setattr__ reads self._has_initialized; neither BaseItem, Item nor
\* InheritableItem gives the class such an attribute and Item.__init__ assigns it
\* only after BaseItem.__init__ returned, so until then the read finds what the
\* concrete item class provides: nothing (AttributeError) or False
ClassLevelInitialized == {"unset", "false"}

\* the keyword arguments an item is constructed with
KwargSets ==
    {NoKwargs,
     [x \in {"comment"} |-> Str("c")],
     [x \in {"owners"} |-> List(<<"admin">>)],
     [x \in {"comment", "kernel_options"} |->
         IF x = "comment" THEN Str("c") ELSE Dict([y \in {"a"} |-> "1"])]}

Building == {"base", "item", "seed", "finish", "inheritable"}

\* what Item.__setattr__ does for the private name n before it stores the value
setattr_outcome(i, n) ==
    IF ~IsDictKey(n) THEN "store"
    ELSE CASE hasInit[i] = "unset" -> "AttributeError"
           [] hasInit[i] = "true" -> "clean_cache"
           [] OTHER -> "store"

\* the private names a list of writes called clean_cache for
CleanedBy(i, writes) == {n \in Range(writes) : setattr_outcome(i, n) = "clean_cache"}

RECURSIVE setattr_all(_, _, _)
\* the memo slots after the writes of a constructor body, in their order
setattr_all(c, i, writes) ==
    IF writes = <<>> THEN c
    ELSE setattr_all(setattr_cache(c, i, Head(writes)), i, Tail(writes))

\* the call of the constructor of a concrete inheritable item class
CtorCall(i, kw, cls) ==
    /\ ctor.pc = "idle"
    /\ i \notin objs
    /\ hasInit[i] = "unset"
    /\ hasInit' = [hasInit EXCEPT ![i] = cls]
    /\ ctor' = [Idle EXCEPT !.pc = "base", !.item = i, !.kwargs = kw]
    /\ last' = Op("ctor", i, "", NoDict, FALSE)
    /\ UNCHANGED <<envVars, objs, listing, name, parent, depth, attr, inmemory, cache,
                   settings, cache_enabled, nops>>

BaseItemWrites == <<"_ctime", "_mtime", "_uid", "_name", "_comment">>

\* BaseItem.__init__
BaseItemInit ==
    /\ ctor.pc = "base"
    /\ LET i == ctor.item
       IN  IF setattr_outcome(i, Head(BaseItemWrites)) = "AttributeError"
           THEN /\ ctor' = [ctor EXCEPT !.pc = "raised", !.err = "AttributeError"]
                /\ UNCHANGED <<name, attr, cache>>
           ELSE /\ cache' = setattr_all(cache, i, BaseItemWrites)
                /\ name' = [name EXCEPT ![i] = ""]
                /\ attr' = [attr EXCEPT ![i]["comment"] = Str("")]
                /\ ctor' = [ctor EXCEPT
                               !.pc = "item",
                               !.cleaned = @ \cup CleanedBy(i, BaseItemWrites)]
    /\ last' = Op("base_init", ctor.item, "", NoDict, FALSE)
    /\ UNCHANGED <<envVars, objs, listing, parent, depth, inmemory, hasInit, settings,
                   cache_enabled, nops>>

\* Item.__init__ from the assignment of _has_initialized to that of _inmemory
ItemInit ==
    /\ ctor.pc = "item"
    /\ LET i == ctor.item
       IN  /\ hasInit' = [hasInit EXCEPT ![i] = "false"]
           /\ parent' = [parent EXCEPT ![i] = ""]
           /\ depth' = [depth EXCEPT ![i] = 0]
           /\ attr' = [attr EXCEPT ![i] =
                          [f \in DOMAIN attr[i] |->
                              IF f = "comment" THEN attr[i][f] ELSE DefaultAttr(i)[f]]]
           /\ cache' = [cache EXCEPT ![i] = [raw |-> NoDict, res |-> NoDict]]
           /\ inmemory' = [inmemory EXCEPT ![i] = TRUE]
    /\ ctor' = [ctor EXCEPT
                   !.pc = IF ctor.kwargs = NoKwargs THEN "finish" ELSE "seed"]
    /\ last' = Op("item_init", ctor.item, "", NoDict, FALSE)
    /\ UNCHANGED <<envVars, objs, listing, name, settings, cache_enabled, nops>>

\* hasattr(self, "_" + key) in from_dict: _children and _is_subobject become
\* attributes of the object only in InheritableItem.__init__
HasPrivate(i, key) ==
    \/ key \in DOMAIN attr[i] \cup {"name", "parent", "depth", "uid", "ctime", "mtime",
                                    "inmemory"}
    \/ key \in {"children", "is_subobject"} /\ i \in objs

\* Item.__init__: kwargs.update({"is_subobject": is_subobject}) and
\* Item.from_dict(self, kwargs)
SeedFromDict ==
    /\ ctor.pc = "seed"
    /\ LET i == ctor.item
           dictionary == DOMAIN ctor.kwargs \cup {"is_subobject"}
           result == {key \in dictionary : ~HasPrivate(i, key)}
       IN  /\ attr' = [attr EXCEPT ![i] =
                          [f \in DOMAIN attr[i] |->
                              IF f \in DOMAIN ctor.kwargs THEN ctor.kwargs[f]
                              ELSE attr[i][f]]]
           /\ cache' = clean_cache(cache, i, NoName)
           /\ ctor' = [ctor EXCEPT
                          !.direct = TRUE,
                          !.pc = IF result = {} THEN "finish" ELSE "raised",
                          !.err = IF result = {} THEN "" ELSE "KeyError"]
    /\ last' = Op("from_dict", ctor.item, "", NoDict, FALSE)
    /\ UNCHANGED <<envVars, objs, listing, name, parent, depth, inmemory, hasInit, settings,
                   cache_enabled, nops>>

\* Item.__init__: the last two statements
ItemInitEnd ==
    /\ ctor.pc = "finish"
    /\ hasInit' = [hasInit EXCEPT ![ctor.item] = "true"]
    /\ ctor' = [ctor EXCEPT !.pc = "inheritable"]
    /\ last' = Op("item_init_end", ctor.item, "", NoDict, FALSE)
    /\ UNCHANGED <<envVars, objs, listing, name, parent, depth, attr, inmemory, cache,
                   settings, cache_enabled, nops>>

InheritableItemWrites == <<"_children", "_is_subobject">>

\* InheritableItem.__init__ after super().__init__ returned
InheritableItemInit ==
    /\ ctor.pc = "inheritable"
    /\ LET i == ctor.item
       IN  /\ cache' = setattr_all(cache, i, InheritableItemWrites)
           /\ ctor' = [ctor EXCEPT
                          !.pc = "done",
                          !.cleaned = @ \cup CleanedBy(i, InheritableItemWrites)]
           /\ objs' = objs \cup {i}
    /\ last' = Op("inheritable_init", ctor.item, "", NoDict, FALSE)
    /\ UNCHANGED <<envVars, listing, name, parent, depth, attr, inmemory, hasInit, settings,
                   cache_enabled, nops>>

\* the registered items d1 and p1; p2 is not constructed yet
InitCtor(enabled) ==
    /\ objs = {"d1", "p1"}
    /\ listing = ListingOf({"d1", "p1"})
    /\ name = [i \in ItemIds |-> IF i \in {"d1", "p1"} THEN i ELSE ""]
    /\ parent = [i \in ItemIds |-> ""]
    /\ depth = [i \in ItemIds |-> 0]
    /\ attr = [i \in ItemIds |->
                  IF i = "p1" THEN [DefaultAttr(i) EXCEPT !["distro"] = Str("d1")]
                  ELSE IF i = "d1" THEN DefaultAttr(i)
                  ELSE [f \in FieldsOf(i) |-> Absent]]
    /\ inmemory = [i \in ItemIds |-> i \in {"d1", "p1"}]
    /\ hasInit = [i \in ItemIds |-> IF i \in {"d1", "p1"} THEN "true" ELSE "unset"]
    /\ cache = [i \in ItemIds |-> [raw |-> NoDict, res |-> NoDict]]
    /\ settings = DefaultSettings
    /\ cache_enabled = enabled
    /\ ctor = Idle
    /\ last = Op("init", NoItem, "", NoDict, FALSE)
    /\ nops = 0
    /\ EnvIdle

CtorFields == {"comment", "owners"}

NextCtor ==
    \/ \E kw \in KwargSets, cls \in ClassLevelInitialized : CtorCall("p2", kw, cls)
    \/ BaseItemInit
    \/ ItemInit
    \/ SeedFromDict
    \/ ItemInitEnd
    \/ InheritableItemInit
    \/ /\ ctor.pc \notin Building
       /\ \E i \in objs : \E f \in CtorFields : \E val \in SetterInputs(f) :
              SetAttr(i, f, val)
    \/ /\ ctor.pc \notin Building
       /\ \E i \in objs : ToDict(i, TRUE)

SpecCtor == (\E enabled \in BOOLEAN : InitCtor(enabled)) /\ [][NextCtor]_vars

\* C7 as stated: no field write made by BaseItem.__init__, Item.__init__, the
\* seeding from_dict or InheritableItem.__init__ calls clean_cache.
C7_NoCleanCacheInConstructor == ctor.cleaned = {}

-----------------------------------------------------------------------------
(* Attribute resolution on the chain d1 <- p1 <- p2 (p1 is a profile of the   *)
(* distro d1, p2 a sub-profile of p1), for chosen stored values and settings.  *)

\* Item._resolve called for a property name
Resolve(i, property_name) ==
    /\ nops < MaxOps
    /\ last' = Op("resolve", i, property_name, _resolve(i, property_name), FALSE)
    /\ nops' = nops + 1
    /\ UNCHANGED <<envVars, objs, listing, name, parent, depth, attr, inmemory, hasInit, cache,
                   settings, cache_enabled, ctor>>

\* Item._resolve_enum called for a property name
ResolveEnum(i, property_name) ==
    /\ nops < MaxOps
    /\ last' = Op("resolve_enum", i, property_name, _resolve_enum(i, property_name),
                  FALSE)
    /\ nops' = nops + 1
    /\ UNCHANGED <<envVars, objs, listing, name, parent, depth, attr, inmemory, hasInit, cache,
                   settings, cache_enabled, ctor>>

\* the settings fields that resolution may ask for, by attribute
SettingsFamilies ==
    {{"owners", "default_ownership", "default_default_ownership"},
     {"proxy", "proxy_url_int", "default_proxy_url_int"},
     {"mgmt_classes", "default_mgmt_classes"},
     {"virt_type", "default_virt_type"}}

\* every settings field holds a value that tells its name
SettingsWith(keys) ==
    [k \in keys |->
        IF k \in {"owners", "default_ownership", "default_default_ownership",
                  "mgmt_classes", "default_mgmt_classes"}
        THEN List(<<k>>) ELSE Str(k)]

\* the stored values: the items of explicit hold values of their own, the others
\* the inherit marker
StoredValues(i, explicit) ==
    [f \in FieldsOf(i) |->
        IF i \in explicit /\ f \in {"owners", "mgmt_classes"} THEN List(<<i>>)
        ELSE IF i \in explicit /\ f = "proxy" THEN Str(i)
        ELSE IF i \in explicit /\ f = "virt_type" THEN Enum(i)
        ELSE IF i = "p1" /\ f = "distro" THEN Str("d1")
        ELSE DefaultAttr(i)[f]]

InitResolve(explicit, keys) ==
    /\ objs = {"d1", "p1", "p2"}
    /\ listing = ListingOf({"d1", "p1", "p2"})
    /\ name = [i \in ItemIds |-> i]
    /\ parent = [i \in ItemIds |-> IF i = "p2" THEN "p1" ELSE ""]
    /\ depth = [i \in ItemIds |-> IF i = "p2" THEN 1 ELSE 0]
    /\ attr = [i \in ItemIds |-> StoredValues(i, explicit)]
    /\ inmemory = [i \in ItemIds |-> TRUE]
    /\ hasInit = [i \in ItemIds |-> "true"]
    /\ cache = [i \in ItemIds |-> [raw |-> NoDict, res |-> NoDict]]
    /\ settings = SettingsWith(keys)
    /\ cache_enabled = TRUE
    /\ ctor = Idle
    /\ last = Op("init", NoItem, "", NoDict, FALSE)
    /\ nops = 0
    /\ EnvIdle

ResolveNames == {"owners", "mgmt_classes", "proxy_url_int", "proxy_url_ext"}

NextResolve ==
    \/ \E i \in objs, property_name \in ResolveNames : Resolve(i, property_name)
    \/ \E i \in objs : ResolveEnum(i, "virt_type")

SpecResolve ==
    /\ \E explicit \in SUBSET {"d1", "p1", "p2"} :
           \E family \in SettingsFamilies : \E keys \in SUBSET family :
               InitResolve(explicit, keys)
    /\ [][NextResolve]_vars

-----------------------------------------------------------------------------
(* Properties of the resolution *)

\* the logical parent of i exists and has the attribute p
ParentExposes(i, p) == logical_parent(i) # NoItem /\ HasAttr(logical_parent(i), p)

\* C8: _resolve on a scalar attribute p of item I returns the stored value when it is
\* not the inherit marker; otherwise the resolved p of the logical parent when there
\* is one that has p; otherwise the settings value for p when present; otherwise
\* the settings value default_p when present (for owners the settings name is
\* default_ownership).
C8_ScalarResolutionOrder ==
    \A i \in objs : \A p \in {"owners", "mgmt_classes"} :
        (last.op = "resolve" /\ last.item = i /\ last.arg = p) =>
            \E sname \in {IF p = "owners" THEN "default_ownership" ELSE p} :
                IF attr[i][p] # Inh THEN last.out = Ok(attr[i][p])
                ELSE IF ParentExposes(i, p)
                THEN last.out = _resolve(logical_parent(i), p)
                ELSE IF sname \in DOMAIN settings
                THEN last.out = Ok(settings[sname])
                ELSE ("default_" \o sname) \in DOMAIN settings
                         => last.out = Ok(settings["default_" \o sname])

\* mgmt_classes of p2 was resolved through p1 and d1, which all inherit, down to the
\* settings, which have mgmt_classes and default_mgmt_classes
C8_Witness ==
    /\ last.op = "resolve" /\ last.item = "p2" /\ last.arg = "mgmt_classes"
    /\ \A i \in {"d1", "p1", "p2"} : attr[i]["mgmt_classes"] = Inh
    /\ logical_parent("p2") = "p1" /\ logical_parent("p1") = "d1"
    /\ DOMAIN settings = {"mgmt_classes", "default_mgmt_classes"}
    /\ last.out = Ok(List(<<"mgmt_classes">>))

\* C9 as stated: when the stored value is the inherit marker, no logical parent has
\* the attribute and the settings have neither the name nor its default_ name,
\* _resolve and _resolve_enum end with a failure and do not return the marker.
C9_UnresolvedSignalsFailure ==
    \A i \in objs :
        (/\ last.op \in {"resolve", "resolve_enum"} /\ last.item = i
         /\ HasAttr(i, resolve_property_name(last.arg))
         /\ attr[i][resolve_property_name(last.arg)].v = Inh.v
         /\ ~ParentExposes(i, resolve_property_name(last.arg))
         /\ DOMAIN settings = {})
            => (last.out.st # "ok" /\ last.out.v.v # Inh.v)

\* C10 as stated: when _resolve falls back to the settings, a proxy_url_ name reads
\* the settings field proxy and owners reads the settings field default_ownership.
C10_AsStated ==
    \A i \in objs :
        (/\ last.op = "resolve" /\ last.item = i
         /\ HasAttr(i, resolve_property_name(last.arg))
         /\ attr[i][resolve_property_name(last.arg)] = Inh
         /\ ~ParentExposes(i, resolve_property_name(last.arg)))
            => /\ (StartsWithProxyUrl(last.arg) /\ "proxy" \in DOMAIN settings)
                      => last.out = Ok(settings["proxy"])
               /\ (last.arg = "owners" /\ "default_ownership" \in DOMAIN settings)
                      => last.out = Ok(settings["default_ownership"])

\* C10: when _resolve falls back to the settings, a proxy_url_ name reads the item
\* attribute proxy but the settings field of its own name, proxy_url_..., and then
\* default_proxy_url_...; the settings field proxy is never read; owners reads the
\* settings field default_ownership.
C10_SettingsNames ==
    \A i \in objs :
        (/\ last.op = "resolve" /\ last.item = i
         /\ HasAttr(i, resolve_property_name(last.arg))
         /\ attr[i][resolve_property_name(last.arg)] = Inh
         /\ ~ParentExposes(i, resolve_property_name(last.arg)))
            => /\ StartsWithProxyUrl(last.arg) =>
                      IF last.arg \in DOMAIN settings
                      THEN last.out = Ok(settings[last.arg])
                      ELSE IF ("default_" \o last.arg) \in DOMAIN settings
                      THEN last.out = Ok(settings["default_" \o last.arg])
                      ELSE last.out = Ok(Inh)
               /\ (last.arg = "owners" /\ "default_ownership" \in DOMAIN settings)
                      => last.out = Ok(settings["default_ownership"])

\* proxy_url_int was resolved on the profile p1, whose proxy is inherited and whose
\* distro has no proxy, with settings that have both proxy and proxy_url_int:
\* the value of proxy_url_int came back
C10_Witness ==
    /\ last.op = "resolve" /\ last.item = "p1" /\ last.arg = "proxy_url_int"
    /\ attr["p1"]["proxy"] = Inh
    /\ logical_parent("p1") = "d1" /\ ~HasAttr("d1", "proxy")
    /\ {"proxy", "proxy_url_int"} \subseteq DOMAIN settings
    /\ last.out = Ok(Str("proxy_url_int"))

-----------------------------------------------------------------------------
(* Dict resolution on the chain d1 <- p1 <- p2, for chosen stored mappings of  *)
(* kernel_options and settings with or without a kernel_options field.         *)

\* Item._resolve_dict called for a property name
ResolveDict(i, property_name) ==
    /\ nops < MaxOps
    /\ last' = Op("resolve_dict", i, property_name, _resolve_dict(i, property_name),
                  FALSE)
    /\ nops' = nops + 1
    /\ UNCHANGED <<envVars, objs, listing, name, parent, depth, attr, inmemory, hasInit, cache,
                   settings, cache_enabled, ctor>>

\* the stored values of a dict attribute: the inherit marker or a mapping, which
\* may mark keys for deletion
DictValues ==
    {Inh,
     Dict(EmptyDict),
     Dict([x \in {"a", "b"} |-> IF x = "a" THEN "1" ELSE "2"]),
     Dict([x \in {"b"} |-> DELETE]),
     Dict([x \in {"a", "c"} |-> IF x = "a" THEN "9" ELSE "3"])}

\* the settings, with or without a kernel_options field
DictSettings ==
    {[x \in {} |-> Absent],
     [x \in {"kernel_options"} |->
         Dict([y \in {"a", "s"} |-> "0"])]}

InitDict(stored, conf) ==
    /\ objs = {"d1", "p1", "p2"}
    /\ listing = ListingOf({"d1", "p1", "p2"})
    /\ name = [i \in ItemIds |-> i]
    /\ parent = [i \in ItemIds |-> IF i = "p2" THEN "p1" ELSE ""]
    /\ depth = [i \in ItemIds |-> IF i = "p2" THEN 1 ELSE 0]
    /\ attr = [i \in ItemIds |->
                  [f \in FieldsOf(i) |->
                      IF f = "kernel_options" /\ i \in DOMAIN stored THEN stored[i]
                      ELSE IF i = "p1" /\ f = "distro" THEN Str("d1")
                      ELSE DefaultAttr(i)[f]]]
    /\ inmemory = [i \in ItemIds |-> TRUE]
    /\ hasInit = [i \in ItemIds |-> "true"]
    /\ cache = [i \in ItemIds |-> [raw |-> NoDict, res |-> NoDict]]
    /\ settings = conf
    /\ cache_enabled = TRUE
    /\ ctor = Idle
    /\ last = Op("init", NoItem, "", NoDict, FALSE)
    /\ nops = 0
    /\ EnvIdle

NextDict ==
    \/ \E i \in objs : ResolveDict(i, "kernel_options")
    \/ \E val \in DictValues : SetAttr("p1", "kernel_options", val)

SpecDict ==
    /\ \E stored \in [{"d1", "p1", "p2"} -> DictValues] : \E conf \in DictSettings :
           InitDict(stored, conf)
    /\ [][NextDict]_vars

-----------------------------------------------------------------------------
(* Properties of the dict resolution *)

\* the mapping that item i inherits for p: what the logical parent resolves p to,
\* or, when no logical parent has p, the settings field p, or nothing
InheritedMapping(i, p) ==
    IF ParentExposes(i, p) THEN _resolve_dict(logical_parent(i), p).v.v
    ELSE IF p \in DOMAIN settings THEN settings[p].v
    ELSE EmptyDict

\* the mapping that item i stores for p, empty when it stores the inherit marker
OwnMapping(i, p) == IF attr[i][p] = Inh THEN EmptyDict ELSE attr[i][p].v

\* C11: _resolve_dict of attribute p on item I returns the mapping inherited from the
\* logical parent (or, without one, from the settings) overlaid with the mapping I
\* stores itself: every key I stores with a value has I's value, every other
\* inherited key has the inherited value, and there is no further key.
C11_DictOverlay ==
    \A i \in objs :
        (last.op = "resolve_dict" /\ last.item = i) =>
            /\ last.out.st = "ok"
            /\ DOMAIN last.out.v.v \subseteq
                   DOMAIN InheritedMapping(i, last.arg) \cup DOMAIN OwnMapping(i, last.arg)
            /\ \A key \in DOMAIN OwnMapping(i, last.arg) :
                   OwnMapping(i, last.arg)[key] # DELETE =>
                       /\ key \in DOMAIN last.out.v.v
                       /\ last.out.v.v[key] = OwnMapping(i, last.arg)[key]
            /\ \A key \in DOMAIN InheritedMapping(i, last.arg) :
                   key \notin DOMAIN OwnMapping(i, last.arg) =>
                       /\ key \in DOMAIN last.out.v.v
                       /\ last.out.v.v[key] = InheritedMapping(i, last.arg)[key]

\* the distro stores {a:1, b:2}, the profile p1 was given {a:9, c:3} and resolves
\* to {a:9, b:2, c:3}
C11_Witness ==
    /\ last.op = "resolve_dict" /\ last.item = "p1"
    /\ logical_parent("p1") = "d1"
    /\ DOMAIN settings = {}
    /\ attr["d1"]["kernel_options"].k = "dict"
    /\ DOMAIN attr["d1"]["kernel_options"].v = {"a", "b"}
    /\ attr["p1"]["kernel_options"].k = "dict"
    /\ DOMAIN attr["p1"]["kernel_options"].v = {"a", "c"}
    /\ last.out = Ok(Dict([x \in {"a", "b", "c"} |->
                              CASE x = "a" -> "9" [] x = "b" -> "2" [] OTHER -> "3"]))

\* C12: after the merge every key that I marks with the deletion marker is absent
\* from the mapping _resolve_dict returns, and the inherited keys that I does not
\* store are all still there with their inherited values.
C12_MarkedKeysAbsent ==
    \A i \in objs :
        (last.op = "resolve_dict" /\ last.item = i /\ last.out.st = "ok") =>
            /\ \A key \in DOMAIN OwnMapping(i, last.arg) :
                   OwnMapping(i, last.arg)[key] = DELETE =>
                       key \notin DOMAIN last.out.v.v
            /\ DOMAIN InheritedMapping(i, last.arg) \ DOMAIN OwnMapping(i, last.arg)
                   \subseteq DOMAIN last.out.v.v

\* the distro stores {a:1, b:2}, the profile p1 stores {b:DELETE} and resolves to
\* {a:1}
C12_Witness ==
    /\ last.op = "resolve_dict" /\ last.item = "p1"
    /\ logical_parent("p1") = "d1"
    /\ DOMAIN settings = {}
    /\ attr["d1"]["kernel_options"] =
           Dict([x \in {"a", "b"} |-> IF x = "a" THEN "1" ELSE "2"])
    /\ attr["p1"]["kernel_options"] = Dict([x \in {"b"} |-> DELETE])
    /\ last.out = Ok(Dict([x \in {"a"} |-> "1"]))

-----------------------------------------------------------------------------
(* The hierarchy under the parent and name setters: profiles p1..p4 with the   *)
(* distro d1 and the management class m1 of p1 and the system s1 of p2.        *)

\* the longest name the name setter is called with
MaxNameLen == 2

\* the characters of the class [a-zA-Z0-9_\-.:] of RE_OBJECT_NAME that are used,
\* and those outside of it
AllowedChars == {"p", "q", "2", "-"}
OtherChars == {"!", "\n"}

RECURSIVE Join(_)
\* the string made of the characters
Join(chars) == IF chars = <<>> THEN "" ELSE Head(chars) \o Join(Tail(chars))

\* the length of the longest prefix that [a-zA-Z0-9_\-.:]* can take
RECURSIVE class_prefix(_)
class_prefix(chars) ==
    IF chars = <<>> \/ Head(chars) \notin AllowedChars THEN 0
    ELSE 1 + class_prefix(Tail(chars))

\* where $ matches without re.MULTILINE: at the end of the string and just
\* before a newline that is its last character
dollar_matches(chars, pos) ==
    \/ pos = Len(chars)
    \/ pos = Len(chars) - 1 /\ chars[Len(chars)] = "\n"

\* RE_OBJECT_NAME.match(name): the class repeated, then $
re_match(chars) ==
    \E taken \in 0..class_prefix(chars) : dollar_matches(chars, taken)

\* the collection adds an item under its name
Register(i) ==
    /\ nops < MaxOps
    /\ i \in objs
    /\ name[i] \in Names
    /\ Get(TypeOf(i), name[i]) = NoItem
    /\ listing' = [listing EXCEPT ![TypeOf(i)][name[i]] = i]
    /\ last' = Op("register", i, "", Ok(Absent), FALSE)
    /\ nops' = nops + 1
    /\ UNCHANGED <<envVars, objs, name, parent, depth, attr, inmemory, hasInit, cache,
                   settings, cache_enabled, ctor>>

\* the parent setter storing the name before it checks it
SetParentStoresFirst(i, n) ==
    /\ nops < MaxOps
    /\ cache' = setattr_cache(cache, i, "_parent")
    /\ parent' = [parent EXCEPT ![i] = n]
    /\ IF n = ""
       THEN /\ depth' = depth
            /\ last' = Op("parent", i, n, Ok(Absent), FALSE)
       ELSE IF n = name[i] \/ Get(TypeOf(i), n) = NoItem
       THEN /\ depth' = depth
            /\ last' = Op("parent", i, n, Raise("CX"), FALSE)
       ELSE /\ depth' = [depth EXCEPT ![i] = depth[Get(TypeOf(i), n)] + 1]
            /\ last' = Op("parent", i, n, Ok(Absent), FALSE)
    /\ nops' = nops + 1
    /\ UNCHANGED <<envVars, objs, listing, name, attr, inmemory, hasInit, settings,
                   cache_enabled, ctor>>

\* InheritableItem.parent (setter) called with the name n: the empty name clears
\* the reference and leaves the depth alone; the own name and a name that is not
\* in the collection raise CX; any other name is stored and the depth follows
SetParent(i, n) ==
    /\ nops < MaxOps
    /\ IF n = ""
       THEN /\ cache' = setattr_cache(cache, i, "_parent")
            /\ parent' = [parent EXCEPT ![i] = ""]
            /\ depth' = depth
            /\ last' = Op("parent", i, n, Ok(Absent), FALSE)
       ELSE IF n = name[i] \/ Get(TypeOf(i), n) = NoItem
       THEN /\ UNCHANGED <<cache, parent, depth>>
            /\ last' = Op("parent", i, n, Raise("CX"), FALSE)
       ELSE /\ cache' = setattr_cache(setattr_cache(cache, i, "_parent"), i, "_depth")
            /\ parent' = [parent EXCEPT ![i] = n]
            /\ depth' = [depth EXCEPT ![i] = depth[Get(TypeOf(i), n)] + 1]
            /\ last' = Op("parent", i, n, Ok(Absent), FALSE)
    /\ nops' = nops + 1
    /\ UNCHANGED <<envVars, objs, listing, name, attr, inmemory, hasInit, settings,
                   cache_enabled, ctor>>

\* BaseItem.name (setter) called with the string made of chars
SetName(i, chars) ==
    /\ nops < MaxOps
    /\ IF re_match(chars)
       THEN /\ cache' = setattr_cache(cache, i, "_name")
            /\ name' = [name EXCEPT ![i] = Join(chars)]
            /\ last' = Op("name", i, chars, Ok(Absent), FALSE)
       ELSE /\ UNCHANGED <<cache, name>>
            /\ last' = Op("name", i, chars, Raise("ValueError"), FALSE)
    /\ nops' = nops + 1
    /\ UNCHANGED <<envVars, objs, listing, parent, depth, attr, inmemory, hasInit, settings,
                   cache_enabled, ctor>>

SetV(S) == [k |-> "set", v |-> S]

RECURSIVE walk_overflows(_, _)
\* tree_walk calls itself until the interpreter's recursion limit is reached
walk_overflows(i, fuel) ==
    IF fuel = 0 THEN TRUE
    ELSE \E child \in Range(children(i)) : walk_overflows(child, fuel - 1)

\* the items find_items returns for the dependencies of child
dependents(child) ==
    UNION {find_items(d[1], d[2], name[child]) :
               d \in Range(TYPE_DEPENDENCIES[TypeOf(child)])}

RECURSIVE descendants_overflow(_, _)
\* descendants, or the tree_walk it starts with, reaches the recursion limit
descendants_overflow(i, fuel) ==
    IF fuel = 0 \/ walk_overflows(i, Fuel) THEN TRUE
    ELSE \E child \in Range(tree_walk(i)) \cup {i} :
             \E dep_item \in dependents(child) : descendants_overflow(dep_item, fuel - 1)

\* InheritableItem.children read
Children(i) ==
    /\ nops < MaxOps
    /\ last' = Op("children", i, "", Ok(List(children(i))), FALSE)
    /\ nops' = nops + 1
    /\ UNCHANGED <<envVars, objs, listing, name, parent, depth, attr, inmemory, hasInit, cache,
                   settings, cache_enabled, ctor>>

\* InheritableItem.tree_walk called
TreeWalk(i) ==
    /\ nops < MaxOps
    /\ last' = Op("tree_walk", i, "",
                  IF walk_overflows(i, Fuel) THEN Raise("RecursionError")
                  ELSE Ok(List(tree_walk(i))),
                  FALSE)
    /\ nops' = nops + 1
    /\ UNCHANGED <<envVars, objs, listing, name, parent, depth, attr, inmemory, hasInit, cache,
                   settings, cache_enabled, ctor>>

\* InheritableItem.descendants read
Descendants(i) ==
    /\ nops < MaxOps
    /\ last' = Op("descendants", i, "",
                  IF descendants_overflow(i, Fuel) THEN Raise("RecursionError")
                  ELSE Ok(SetV(descendants(i))),
                  FALSE)
    /\ nops' = nops + 1
    /\ UNCHANGED <<envVars, objs, listing, name, parent, depth, attr, inmemory, hasInit, cache,
                   settings, cache_enabled, ctor>>

\* the parent references of the profiles, each a state that parent assignments
\* from below reach: no references; the chain p1 <- p2 <- p3 with p4 under p1;
\* p2 and p3 under p1 with p4 under p2
Forests ==
    {[p \in {"p2", "p3", "p4"} |-> ""],
     [p \in {"p2", "p3", "p4"} |-> CASE p = "p2" -> "p1" [] p = "p3" -> "p2" [] OTHER -> "p1"],
     [p \in {"p2", "p3", "p4"} |-> CASE p = "p2" -> "p1" [] p = "p3" -> "p1" [] OTHER -> "p2"]}

RECURSIVE depth_in(_, _)
\* the depth the parent setter gave an item of the forest
depth_in(forest, i) ==
    IF i \notin DOMAIN forest \/ forest[i] = "" THEN 0
    ELSE depth_in(forest, forest[i]) + 1

GraphObjs == {"d1", "m1", "p1", "p2", "p3", "p4", "s1"}

InitGraphOf(forest, reg) ==
    /\ objs = GraphObjs
    /\ listing = ListingOf(reg)
    /\ name = [i \in ItemIds |-> i]
    /\ parent = [i \in ItemIds |-> IF i \in DOMAIN forest THEN forest[i] ELSE ""]
    /\ depth = [i \in ItemIds |-> depth_in(forest, i)]
    /\ attr = [i \in ItemIds |->
                  CASE i = "p1" -> [DefaultAttr(i) EXCEPT
                                       !["distro"] = Str("d1"),
                                       !["mgmt_classes"] = List(<<"m1">>)]
                    [] i = "s1" -> [DefaultAttr(i) EXCEPT !["profile"] = Str("p2")]
                    [] OTHER -> DefaultAttr(i)]
    /\ inmemory = [i \in ItemIds |-> TRUE]
    /\ hasInit = [i \in ItemIds |-> "true"]
    /\ cache = [i \in ItemIds |-> [raw |-> NoDict, res |-> NoDict]]
    /\ settings = DefaultSettings
    /\ cache_enabled = TRUE
    /\ ctor = Idle
    /\ last = Op("init", NoItem, "", NoDict, FALSE)
    /\ nops = 0
    /\ EnvIdle

\* the names the parent setter is called with, by item
ParentInputs(i) ==
    CASE i = "p1" -> {"p1", "p2"}
      [] i = "p2" -> {"", "p1", "zz"}
      [] OTHER -> {"", "p2"}

\* the names the name setter is called with: a new name and a string the pattern
\* does not match
NameInputs == {<<"q">>, <<"q", "!">>}

NextGraph ==
    \/ \E i \in {"p1", "p2", "p3"} : \E n \in ParentInputs(i) : SetParent(i, n)
    \/ \E chars \in NameInputs : SetName("p2", chars)
    \/ Register("p4")
    \/ \E i \in {"p1", "p2"} : Children(i)
    \/ \E i \in {"p1", "p2", "p3", "p4"} : TreeWalk(i)
    \/ \E i \in {"m1", "d1", "p1", "p2"} : Descendants(i)
    \/ \E resolved \in BOOLEAN : ToDict("p2", resolved)

SpecGraph ==
    /\ \E forest \in Forests :
           \E reg \in {GraphObjs, GraphObjs \ {"p4"}} : InitGraphOf(forest, reg)
    /\ [][NextGraph]_vars

-----------------------------------------------------------------------------
(* Properties of the hierarchy *)

\* C13 as stated: immediately after a successful parent assignment on item I the
\* depth of I is the depth of the assigned parent plus one, and 0 when the
\* assignment leaves I without a parent.
C13_DepthFollowsParent ==
    \A i \in objs :
        (last.op = "parent" /\ last.item = i /\ last.out.st = "ok") =>
            depth[i] = IF parent[i] = "" THEN 0 ELSE depth[ParentOf(i)] + 1

RECURSIVE nth_parent(_, _)
\* the item reached from i by following n parent references, if there is one
nth_parent(i, n) ==
    IF i = NoItem \/ n = 0 THEN i ELSE nth_parent(ParentOf(i), n - 1)

\* C14 as stated: after any sequence of parent and name assignments, following the
\* parent references from any item never revisits an item: the chain ends after
\* at most as many steps as there are items.
C14_ParentChainAcyclic ==
    \A i \in objs : nth_parent(i, Cardinality(ItemIds)) = NoItem

\* C15: a parent assignment with the item's own name, or with a name that is not
\* registered in the item's collection, raises an error and leaves the parent
\* reference, the depth and both memo slots of the item as they were.
C15_RejectedParentLeavesItem ==
    [][\A i \in objs :
           (/\ nops' = nops + 1
            /\ last'.op = "parent" /\ last'.item = i /\ last'.arg # ""
            /\ (last'.arg = name[i] \/ Get(TypeOf(i), last'.arg) = NoItem))
               => /\ last'.out = Raise("CX")
                  /\ parent'[i] = parent[i]
                  /\ depth'[i] = depth[i]
                  /\ cache'[i] = cache[i]]_vars

\* p2, a child of p1 whose resolved view is memoized, was given a parent name that
\* is not registered; the call raised and the memo is still there
C15_Witness ==
    /\ last.op = "parent" /\ last.item = "p2" /\ last.arg = "zz"
    /\ last.out = Raise("CX")
    /\ parent["p2"] = "p1" /\ depth["p2"] = 1
    /\ cache["p2"].res # NoDict

\* the items of I's collection whose parent reference is the name of I
ChildSet(i) == {o \in ItemsOf(TypeOf(i)) : parent[o] = name[i]}

RECURSIVE child_closure(_)
\* the least set that contains S and the children of its items
child_closure(S) ==
    IF UNION {ChildSet(x) : x \in S} \subseteq S THEN S
    ELSE child_closure(S \cup UNION {ChildSet(x) : x \in S})

\* the items reachable from I through parent/child edges
Subtree(i) == child_closure(ChildSet(i))

C19_WalksReturn ==
    (last.op \in {"tree_walk", "descendants"}) => last.out.st = "ok"

\* the items that depend on n directly: its children and the items that
\* reference its name through the dependency table
DependOn(n) == ChildSet(n) \cup dependents(n)

RECURSIVE depend_closure(_)
\* the least set that contains S and the items that depend on its items
depend_closure(S) ==
    IF UNION {DependOn(x) : x \in S} \subseteq S THEN S
    ELSE depend_closure(S \cup UNION {DependOn(x) : x \in S})

\* C20: what descendants(I) returns is the least set that contains tree_walk(I)
\* and, for every n of tree_walk(I) and I itself, the items referencing n through
\* the dependency table together with their own descendants: the items
\* reachable from I through child and dependency edges.
C20_DescendantsClosure ==
    \A i \in objs :
        (last.op = "descendants" /\ last.item = i /\ last.out.st = "ok") =>
            last.out.v.v = depend_closure(DependOn(i))

\* the descendants of the management class m1: p1, which lists m1, the profiles
\* below p1 and the system s1 of the profile p2
C20_Witness ==
    /\ last.op = "descendants" /\ last.item = "m1"
    /\ attr["p1"]["mgmt_classes"] = List(<<"m1">>)
    /\ parent["p2"] = "p1" /\ parent["p3"] = "p2"
    /\ attr["s1"]["profile"] = Str("p2")
    /\ last.out = Ok(SetV({"p1", "p2", "p3", "p4", "s1"}))

-----------------------------------------------------------------------------
(* The name setter called with every string up to MaxNameLen characters        *)

NameChars == {"q", "-", "!", "\n"}

\* the strings of at most n characters
StringsUpTo(n) == UNION {[1..k -> NameChars] : k \in 0..n}

NextName ==
    \/ \E chars \in StringsUpTo(MaxNameLen) : SetName("p2", chars)
    \/ \E resolved \in BOOLEAN : ToDict("p2", resolved)

SpecName ==
    /\ \E forest \in Forests : InitGraphOf(forest, GraphObjs)
    /\ [][NextName]_vars

\* C16 as stated: the name setter accepts a string exactly if every character of it
\* is in [A-Za-z0-9_.:-], so that a stored name never contains another character,
\* a trailing newline included; any other string raises ValueError.
C16_NameCharset ==
    \A i \in objs :
        (last.op = "name" /\ last.item = i) =>
            IF \A k \in DOMAIN last.arg : last.arg[k] \in AllowedChars
            THEN last.out.st = "ok" /\ name[i] = Join(last.arg)
            ELSE last.out = Raise("ValueError")

-----------------------------------------------------------------------------
(* The logical parent, for chosen references of the system s1 to an image and  *)
(* a profile and of the profile p1 to a distro.                                *)

\* InheritableItem.logical_parent read
LogicalParent(i) ==
    /\ nops < MaxOps
    /\ last' = Op("logical_parent", i, "", Ok(Str(logical_parent(i))), FALSE)
    /\ nops' = nops + 1
    /\ UNCHANGED <<envVars, objs, listing, name, parent, depth, attr, inmemory, hasInit, cache,
                   settings, cache_enabled, ctor>>

\* InheritableItem.get_conceptual_parent called
GetConceptualParent(i) ==
    /\ nops < MaxOps
    /\ last' = Op("get_conceptual_parent", i, "", Ok(Str(get_conceptual_parent(i))),
                  FALSE)
    /\ nops' = nops + 1
    /\ UNCHANGED <<envVars, objs, listing, name, parent, depth, attr, inmemory, hasInit, cache,
                   settings, cache_enabled, ctor>>

\* the references stored in _image and _profile of s1 and in _distro of p1: none,
\* the name of a registered item, a name that is not registered
References ==
    [image : {"", "g1", "gx"}, profile : {"", "p2", "px"}, distro : {"", "d1"}]

LogicalObjs == GraphObjs \cup {"g1"}

InitLogical(forest, refs) ==
    /\ objs = LogicalObjs
    /\ listing = ListingOf(LogicalObjs)
    /\ name = [i \in ItemIds |-> i]
    /\ parent = [i \in ItemIds |-> IF i \in DOMAIN forest THEN forest[i] ELSE ""]
    /\ depth = [i \in ItemIds |-> depth_in(forest, i)]
    /\ attr = [i \in ItemIds |->
                  CASE i = "p1" -> [DefaultAttr(i) EXCEPT !["distro"] = Str(refs.distro)]
                    [] i = "s1" -> [DefaultAttr(i) EXCEPT
                                       !["image"] = Str(refs.image),
                                       !["profile"] = Str(refs.profile)]
                    [] OTHER -> DefaultAttr(i)]
    /\ inmemory = [i \in ItemIds |-> TRUE]
    /\ hasInit = [i \in ItemIds |-> "true"]
    /\ cache = [i \in ItemIds |-> [raw |-> NoDict, res |-> NoDict]]
    /\ settings = DefaultSettings
    /\ cache_enabled = TRUE
    /\ ctor = Idle
    /\ last = Op("init", NoItem, "", NoDict, FALSE)
    /\ nops = 0
    /\ EnvIdle

NextLogical ==
    \/ \E i \in LogicalObjs : LogicalParent(i)
    \/ \E i \in {"p1", "p3", "p4", "s1"} : GetConceptualParent(i)
    \/ \E n \in {"", "p1", "zz"} : SetParent("p3", n)

SpecLogical ==
    /\ \E forest \in Forests : \E refs \in References : InitLogical(forest, refs)
    /\ [][NextLogical]_vars

\* the item without a parent reference at the top of the parent chain of i
RootOf(i) ==
    CHOOSE r \in {nth_parent(i, n) : n \in 0..Cardinality(ItemIds)} \ {NoItem} :
        parent[r] = ""

\* the previous levels listed for the type of r whose reference r stores, non-empty,
\* and which names a registered item
ResolvableLevels(r) ==
    IF TypeOf(r) \notin DOMAIN LOGICAL_INHERITANCE THEN {}
    ELSE {n \in DOMAIN LOGICAL_INHERITANCE[TypeOf(r)] :
              /\ attr[r][LOGICAL_INHERITANCE[TypeOf(r)][n][2]].v # ""
              /\ Get(LOGICAL_INHERITANCE[TypeOf(r)][n][1],
                     attr[r][LOGICAL_INHERITANCE[TypeOf(r)][n][2]].v) # NoItem}

\* the item the first resolvable previous level of the root r leads to, if any
ThroughTable(r) ==
    IF ResolvableLevels(r) = {} THEN NoItem
    ELSE LET first == CHOOSE n \in ResolvableLevels(r) :
                          \A m \in ResolvableLevels(r) : n <= m
         IN  Get(LOGICAL_INHERITANCE[TypeOf(r)][first][1],
                 attr[r][LOGICAL_INHERITANCE[TypeOf(r)][first][2]].v)

\* C17: logical_parent(I) is the structural parent whenever the parent reference of
\* I is set; otherwise, and for get_conceptual_parent(I) always, the result is found
\* from the root of the parent chain of I through the logical-inheritance entry of
\* the root's type: the item of the first listed previous level whose reference is
\* non-empty and names a registered item, and none when there is no such level.
C17_LogicalParent ==
    \A i \in objs :
        /\ (last.op = "logical_parent" /\ last.item = i) =>
               last.out = Ok(Str(IF parent[i] # "" THEN Get(TypeOf(i), parent[i])
                                 ELSE ThroughTable(i)))
        /\ (last.op = "get_conceptual_parent" /\ last.item = i) =>
               last.out = Ok(Str(ThroughTable(RootOf(i))))

\* the system s1 has no parent, its image reference names no registered image and
\* its profile reference names p2: the logical parent is p2, found through the
\* second previous level
C17_Witness ==
    /\ last.op = "logical_parent" /\ last.item = "s1"
    /\ parent["s1"] = ""
    /\ attr["s1"]["image"] = Str("gx") /\ Get("image", "gx") = NoItem
    /\ attr["s1"]["profile"] = Str("p2")
    /\ last.out = Ok(Str("p2"))

-----------------------------------------------------------------------------
(* Dependency lookups that do not answer with a list (C21) *)

\* the collections descendants asks api.find_items about, for the item itself,
\* the items of its tree walk and the descendants of every item found
RECURSIVE lookup_types(_, _)
lookup_types(i, fuel) ==
    IF fuel = 0 THEN {}
    ELSE LET childs == Range(tree_walk(i)) \cup {i}
             deps(child) ==
                 UNION {find_items(d[1], d[2], name[child]) :
                            d \in Range(TYPE_DEPENDENCIES[TypeOf(child)])}
         IN  UNION {{d[1] : d \in Range(TYPE_DEPENDENCIES[TypeOf(child)])} \cup
                    UNION {lookup_types(x, fuel - 1) : x \in deps(child)} :
                        child \in childs}

\* InheritableItem.descendants when find_items answers None for the collections
\* of broken
descendants_lookup(i, broken) ==
    IF lookup_types(i, Fuel) \cap broken # {}
    THEN Raise("ValueError")
    ELSE Ok(SetV(descendants(i)))

\* _clean_dict_cache that empties the slots of the item before it asks for the
\* descendants
clean_own_first(c, i, n, broken) ==
    IF ~cache_enabled THEN [st |-> "ok", c |-> c]
    ELSE IF /\ n # NoName /\ inmemory[i]
            /\ IsInheritableAttr(n)
            /\ TypeOf(i) # GENERIC
            /\ Registered(i)
            /\ descendants_lookup(i, broken).st # "ok"
    THEN [st |-> descendants_lookup(i, broken).st, c |-> clean_dict_cache(c, i)]
    ELSE [st |-> "ok", c |-> _clean_dict_cache(c, i, n)]

\* Item._clean_dict_cache with such lookups: the exception that ends it, if
\* any, and the cache it leaves; self.descendants is evaluated before the loop
\* over it touches a slot
clean_lookup(c, i, n, broken) ==
    IF ~cache_enabled THEN [st |-> "ok", c |-> c]
    ELSE IF /\ n # NoName /\ inmemory[i]
            /\ IsInheritableAttr(n)
            /\ TypeOf(i) # GENERIC
            /\ Registered(i)
            /\ descendants_lookup(i, broken).st # "ok"
    THEN [st |-> descendants_lookup(i, broken).st, c |-> c]
    ELSE [st |-> "ok", c |-> _clean_dict_cache(c, i, n)]

\* Item.__setattr__ with such lookups: clean_cache comes before the assignment
setattr_lookup(c, i, n, broken) ==
    IF IsDictKey(n) /\ hasInit[i] = "true" /\ inmemory[i]
    THEN clean_lookup(c, i, n, broken)
    ELSE [st |-> "ok", c |-> c]

\* a property setter of Item while find_items answers None for the collections
\* of broken
SetAttrLookup(i, f, val, broken) ==
    /\ nops < MaxOps
    /\ hasInit[i] # "unset"
    /\ \E done \in {setattr_lookup(cache, i, "_" \o f, broken)} :
           /\ cache' = done.c
           /\ IF done.st = "ok"
              THEN /\ attr' = [attr EXCEPT ![i][f] = val]
                   /\ last' = Op("setattr", i, f, Ok(SetV(broken)), FALSE)
              ELSE /\ attr' = attr
                   /\ last' = Op("setattr", i, f, Raise(done.st), FALSE)
    /\ nops' = nops + 1
    /\ UNCHANGED <<envVars, objs, listing, name, parent, depth, inmemory, hasInit, settings,
                   cache_enabled, ctor>>

\* InheritableItem.descendants read under the same lookups
DescendantsLookup(i, broken) ==
    /\ nops < MaxOps
    /\ ~descendants_overflow(i, Fuel)
    /\ last' = Op("descendants", i, SetV(broken), descendants_lookup(i, broken), FALSE)
    /\ nops' = nops + 1
    /\ UNCHANGED <<envVars, objs, listing, name, parent, depth, attr, inmemory, hasInit, cache,
                   settings, cache_enabled, ctor>>

BrokenLookups == {{}, {"profile"}, {"system"}}

NextLookup ==
    \/ \E i \in objs : \E f \in MemFields(i) : \E val \in SetterInputs(f) :
       \E broken \in BrokenLookups : SetAttrLookup(i, f, val, broken)
    \/ \E i \in objs, broken \in BrokenLookups : DescendantsLookup(i, broken)
    \/ \E i \in objs, resolved \in BOOLEAN : ToDict(i, resolved)

SpecLookup == Init /\ [][NextLookup]_vars

\* the items whose dependency-table rows descendants(i) looks up
LookedUp(i) == {i} \cup descendants(i)

\* descendants(I) ends in ValueError once a row of one of those items names a
\* collection whose lookup does not answer with a list
DescendantsAbort ==
    (/\ last.op = "descendants"
     /\ \E o \in LookedUp(last.item) :
            \E d \in Range(TYPE_DEPENDENCIES[TypeOf(o)]) : d[1] \in last.arg.v)
        => last.out = Raise("ValueError")

-----------------------------------------------------------------------------
(* Item.from_dict (C22).  A mapping is the sequence of its <<key, value>>    *)
(* entries in iteration order.                                                *)

\* str.lower() on the keys that are used
lower(key) ==
    CASE key = "Comment" -> "comment"
      [] key = "OWNERS" -> "owners"
      [] key = "Bogus" -> "bogus"
      [] OTHER -> key

DeprecatedKeys == {"ks_meta", "kickstart", "children"}

\* Item._remove_depreacted_dict_keys
_remove_depreacted_dict_keys(dictionary) ==
    SelectSeq(dictionary, LAMBDA e : e[1] \notin DeprecatedKeys)

\* the fields of one object that its setters write
Fields(i) ==
    [name |-> name[i], parent |-> parent[i], depth |-> depth[i], uid |-> uid[i],
     attr |-> attr[i], inmemory |-> inmemory[i]]

\* input_converters.input_string_or_list
input_string_or_list(val) ==
    CASE val.k = "list" -> Ok(val)
      [] val.k = "inh" -> Ok(val)
      [] val.k = "str" -> Ok(List(IF val.v = "" THEN <<>> ELSE <<val.v>>))
      [] OTHER -> Raise("TypeError")

\* input_converters.input_string_or_dict and input_string_or_dict_no_inherit
input_string_or_dict(val, inherit) ==
    CASE val.k = "dict" -> Ok(val)
      [] val.k = "inh" /\ inherit -> Ok(val)
      [] val.k = "str" /\ val.v = "" -> Ok(Dict(EmptyDict))
      [] OTHER -> Raise("TypeError")

\* setattr(self, key, val) for a key with a private field: the property setter of
\* key applied to the fields o of item i; uid is the setter of an item that its
\* collection does not list under its name
setter(i, o, key, val) ==
    CASE key = "name" ->
             IF val.k # "str" THEN [st |-> "TypeError", o |-> o]
             ELSE [st |-> "ok", o |-> [o EXCEPT !.name = val.v]]
      [] key = "uid" -> [st |-> "ok", o |-> [o EXCEPT !.uid = val.v]]
      [] key = "parent" ->
             IF val.k # "str" THEN [st |-> "TypeError", o |-> o]
             ELSE IF val.v = "" THEN [st |-> "ok", o |-> [o EXCEPT !.parent = ""]]
             ELSE IF val.v = o.name \/ Get(TypeOf(i), val.v) = NoItem
             THEN [st |-> "CX", o |-> o]
             ELSE [st |-> "ok",
                   o |-> [o EXCEPT
                             !.parent = val.v,
                             !.depth = IF Get(TypeOf(i), val.v) = i THEN o.depth + 1
                                       ELSE depth[Get(TypeOf(i), val.v)] + 1]]
      [] key = "depth" ->
             IF val.k # "int" THEN [st |-> "TypeError", o |-> o]
             ELSE [st |-> "ok", o |-> [o EXCEPT !.depth = val.v]]
      [] key = "inmemory" -> [st |-> "ok", o |-> [o EXCEPT !.inmemory = val.v]]
      [] key \in InheritableProps ->
             IF input_string_or_list(val).st # "ok" THEN [st |-> "TypeError", o |-> o]
             ELSE [st |-> "ok", o |-> [o EXCEPT !.attr[key] = input_string_or_list(val).v]]
      [] key \in InheritableDictProps \cup {"template_files", "boot_files"} ->
             IF input_string_or_dict(val, key # "template_files").st # "ok"
             THEN [st |-> "TypeError", o |-> o]
             ELSE [st |-> "ok",
                   o |-> [o EXCEPT
                             !.attr[key] =
                                 input_string_or_dict(val, key # "template_files").v]]
      [] key = "virt_type" ->
             IF val.k \notin {"str", "enum"} THEN [st |-> "TypeError", o |-> o]
             ELSE [st |-> "ok", o |-> [o EXCEPT !.attr[key] = to_enum(val)]]
      [] OTHER -> [st |-> "ok", o |-> [o EXCEPT !.attr[key] = val]]

\* the loop of from_dict over the entries: the fields of the object, the keys
\* left in result and the exception of a setter, which ends the loop
RECURSIVE from_dict_loop(_, _, _, _)
from_dict_loop(i, o, entries, result) ==
    IF entries = <<>> THEN [st |-> "ok", o |-> o, result |-> result]
    ELSE LET key == Head(entries)[1]
             lowered_key == lower(key)
         IN  IF ~HasPrivate(i, lowered_key)
             THEN from_dict_loop(i, o, Tail(entries), result)
             ELSE CHOOSE r \in
                      {IF done.st # "ok"
                       THEN [st |-> done.st, o |-> done.o, result |-> result \ {key}]
                       ELSE from_dict_loop(i, done.o, Tail(entries), result \ {key}) :
                           done \in {setter(i, o, lowered_key, Head(entries)[2])}} : TRUE

\* from_dict reporting the recognised keys as well
from_dict_rejects_all(i, dictionary) ==
    LET kept == _remove_depreacted_dict_keys(dictionary)
    IN  IF kept = <<>>
        THEN [st |-> "return", o |-> Fields(i), result |-> {}]
        ELSE CHOOSE r \in
                 {IF done.st # "ok" THEN done
                  ELSE [done EXCEPT !.st = "KeyError",
                                    !.result = {e[1] : e \in Range(kept)}] :
                      done \in {from_dict_loop(i, Fields(i), kept,
                                               {e[1] : e \in Range(kept)})}} : TRUE

\* Item.from_dict: "return" is the early return on an empty mapping, "ok" the
\* return after clean_cache, "KeyError" comes with the keys left in result
from_dict(i, dictionary) ==
    LET kept == _remove_depreacted_dict_keys(dictionary)
    IN  IF kept = <<>>
        THEN [st |-> "return", o |-> Fields(i), result |-> {}]
        ELSE CHOOSE r \in
                 {IF done.st = "ok" /\ done.result # {}
                  THEN [done EXCEPT !.st = "KeyError"]
                  ELSE done :
                      done \in {from_dict_loop(i, Fields(i), kept,
                                               {e[1] : e \in Range(kept)})}} : TRUE

\* from_dict called on the item i
FromDict(i, dictionary) ==
    /\ nops < MaxOps
    /\ hasInit[i] # "unset"
    /\ \E done \in {from_dict(i, dictionary)} :
           /\ name' = [name EXCEPT ![i] = done.o.name]
           /\ parent' = [parent EXCEPT ![i] = done.o.parent]
           /\ depth' = [depth EXCEPT ![i] = done.o.depth]
           /\ uid' = [uid EXCEPT ![i] = done.o.uid]
           /\ attr' = [attr EXCEPT ![i] = done.o.attr]
           /\ inmemory' = [inmemory EXCEPT ![i] = done.o.inmemory]
           /\ IF done.st \in {"ok", "KeyError"}
              THEN /\ cache' = IF done.o.inmemory
                               THEN _clean_dict_cache(cache, i, NoName)
                               ELSE cache
                   /\ hasInit' = hasInit
              ELSE /\ cache' = cache
                   /\ hasInit' = IF done.st = "return" THEN hasInit
                                 ELSE [hasInit EXCEPT ![i] = "false"]
           /\ last' = Op("from_dict", i, dictionary,
                         [st |-> done.st, v |-> SetV(done.result)], FALSE)
    /\ nops' = nops + 1
    /\ UNCHANGED <<objs, listing, settings, cache_enabled, ctor, call, lockVars, isc>>

\* the mappings from_dict is called with
DictInputs ==
    {<< >>,
     << <<"comment", Str("c")>> >>,
     << <<"Comment", Str("C")>>, <<"Bogus", Str("x")>> >>,
     << <<"bogus", Str("x")>>, <<"OWNERS", List(<<"admin">>)>>, <<"other", Str("y")>> >>,
     << <<"ks_meta", Dict(EmptyDict)>> >>,
     << <<"owners", Inh>>, <<"kickstart", Str("a.ks")>>, <<"bogus", Str("x")>> >>,
     << <<"comment", Str("d")>>, <<"depth", Str("1")>>, <<"bogus", Str("x")>> >>,
     << <<"owners", IntV(5)>> >>}

NextFromDict ==
    \/ \E i \in objs, dictionary \in DictInputs : FromDict(i, dictionary)
    \/ \E i \in objs, resolved \in BOOLEAN : ToDict(i, resolved)

SpecFromDict == Init /\ [][NextFromDict]_vars

\* the keys of a mapping that match no private field of the item
Unrecognized(i, dictionary) ==
    {e[1] : e \in {x \in Range(dictionary) :
                       lower(x[1]) \notin DOMAIN attr[i] \cup
                                          {"uid", "name", "parent", "depth"}}}

\* the entries of the last from_dict call are stored in the fields of their
\* lower-case names
Applied ==
    \A e \in Range(last.arg) :
        lower(e[1]) \in DOMAIN attr[last.item] => attr[last.item][lower(e[1])] = e[2]

Settable(dictionary) ==
    \A e \in Range(dictionary) :
        \/ lower(e[1]) \in {"comment", "bogus", "other"} \cup DeprecatedKeys
        \/ lower(e[1]) = "owners" /\ e[2].k \in {"list", "inh"}

-----------------------------------------------------------------------------
(* Raw and resolved projection (C23) *)

\* what the item resolves the attribute f to
ResolvedValue(i, f) ==
    CASE f \in InheritableProps -> _resolve(i, f)
      [] f = "proxy" -> _resolve(i, "proxy_url_int")
      [] f \in InheritableDictProps \cup {"boot_files"} -> _resolve_dict(i, f)
      [] OTHER -> Ok(attr[i][f])

\* the attributes of i that store the inherit marker or a mapping
MarkedOrDict(i) == {f \in DOMAIN attr[i] : attr[i][f] = Inh \/ attr[i][f].k = "dict"}

\* the mapping the last to_dict returned gives these attributes as they are
\* stored if it was asked for the raw form and as they resolve otherwise
RawAndResolvedEntries ==
    (last.op = "to_dict" /\ last.out.k = "snap") =>
        \A f \in MarkedOrDict(last.item) :
            IF last.arg = "raw"
            THEN last.out.v[f] = attr[last.item][f]
            ELSE Ok(last.out.v[f]) = ResolvedValue(last.item, f)

\* C23: to_dict(resolved=False) gives every attribute that stores the inherit
\* marker as the marker and every dict attribute as the stored mapping,
\* to_dict(resolved=True) gives them as their resolved values, and neither
\* call changes a stored attribute.
C23_RawAndResolved ==
    /\ []RawAndResolvedEntries
    /\ [][last'.op = "to_dict" =>
              (attr' = attr /\ name' = name /\ parent' = parent /\ depth' = depth)]_vars

\* after the raw form the resolved form of a sub-profile was returned: owners
\* and kernel_options are stored as marker and empty mapping but resolve to
\* what the parent and the settings hold
C23_Witness ==
    /\ last.op = "to_dict" /\ last.arg = "res" /\ last.out.k = "snap"
    /\ cache[last.item].raw # NoDict
    /\ cache[last.item].raw.v["owners"] = Inh
    /\ attr[last.item]["owners"] = Inh
    /\ last.out.v["owners"] # Inh
    /\ attr[last.item]["kernel_options"] = Dict(EmptyDict)
    /\ last.out.v["kernel_options"] # Dict(EmptyDict)

-----------------------------------------------------------------------------
(* Item.serialize (C24) *)

keys_to_drop == {"kickstart", "ks_meta", "remote_grub_kernel", "remote_grub_initrd"}

\* the loop of serialize: result.pop(key, "") for the keys to drop
serialize_pop(result) ==
    Snap([f \in DOMAIN result.v \ keys_to_drop |-> result.v[f]])

\* Item.serialize on an item that is in memory.  result is the mapping to_dict
\* returned, which is the one the raw slot holds when the cache is enabled, so
\* the keys are popped from the slot as well
Serialize(i) ==
    /\ nops < MaxOps
    /\ Hydrated(i)
    /\ \E result \in {IF get_dict_cache(cache, i, FALSE) # NoDict
                      THEN get_dict_cache(cache, i, FALSE)
                      ELSE to_dict_compute(i, FALSE)} :
           /\ cache' = set_dict_cache(cache, i, serialize_pop(result), FALSE)
           /\ last' = Op("serialize", i, "raw", serialize_pop(result),
                         get_dict_cache(cache, i, FALSE) # NoDict)
    /\ nops' = nops + 1
    /\ UNCHANGED <<envVars, objs, listing, name, parent, depth, attr, inmemory, hasInit,
                   settings, cache_enabled, ctor>>

NextSerialize ==
    \/ \E i \in objs : \E f \in SetterFields(i) : \E val \in SetterInputs(f) :
           SetAttr(i, f, val)
    \/ \E i \in objs, resolved \in BOOLEAN : ToDict(i, resolved)
    \/ \E i \in objs : Serialize(i)

SpecSerialize == Init /\ [][NextSerialize]_vars

\* the mapping m gives the entry of key under the legacy name too
Mirrors(m, legacy, key) ==
    key \in DOMAIN m => (legacy \in DOMAIN m /\ m[legacy] = m[key])

\* C24: every mapping to_dict returns has kickstart equal to its autoinstall
\* entry and ks_meta equal to its autoinstall_meta entry when these entries
\* exist, and serialize returns the raw mapping of to_dict without the keys
\* kickstart, ks_meta, remote_grub_kernel and remote_grub_initrd.
C24_LegacyKeysAndSerialize ==
    /\ (last.op = "to_dict" /\ last.out.k = "snap") =>
           /\ Mirrors(last.out.v, "kickstart", "autoinstall")
           /\ Mirrors(last.out.v, "ks_meta", "autoinstall_meta")
    /\ last.op = "serialize" =>
           /\ DOMAIN last.out.v = DOMAIN to_dict_compute(last.item, FALSE).v \ keys_to_drop
           /\ \A f \in DOMAIN last.out.v :
                  last.out.v[f] = to_dict_compute(last.item, FALSE).v[f]

-----------------------------------------------------------------------------
(* Lazy hydration: Item.deserialize and to_dict on an item that is not in     *)
(* memory (C25).  The backing store holds the distro d1, the management      *)
(* class m1, the profile p1 of d1 that uses m1 and its sub-profile p2.        *)

BoolV(b) == [k |-> "bool", v |-> b]

StoredObjs == {"d1", "m1", "p1", "p2"}

\* the fields of the stored items
StoredAttr(i) ==
    [f \in FieldsOf(i) |->
        CASE f = "comment" -> Str("stored")
          [] f = "distro" /\ i = "p1" -> Str("d1")
          [] f = "mgmt_classes" /\ i = "p1" -> List(<<"m1">>)
          [] f = "kernel_options" /\ i = "d1" -> Dict([x \in {"a"} |-> "1"])
          [] OTHER -> DefaultAttr(i)[f]]

StoredParent(i) == IF i = "p2" THEN "p1" ELSE ""

\* the order of the private fields in the mapping of an item
FieldOrder ==
    <<"kernel_options", "kernel_options_post", "autoinstall_meta", "fetchable_files",
      "boot_files", "template_files", "owners", "mgmt_classes", "mgmt_parameters",
      "distro", "profile", "image", "proxy", "virt_type", "autoinstall">>

\* api.deserialize_item(item): the mapping the serializer wrote from
\* serialize(), marked as held in memory
deserialize_item(i) ==
    << <<"uid", Str(NewUid(i))>>, <<"name", Str(i)>>, <<"comment", Str("stored")>>,
       <<"parent", Str(StoredParent(i))>>, <<"depth", IntV(IF i = "p2" THEN 1 ELSE 0)>> >>
    \o [n \in 1..Len(SelectSeq(FieldOrder, LAMBDA f : f \in FieldsOf(i))) |->
           LET f == SelectSeq(FieldOrder, LAMBDA g : g \in FieldsOf(i))[n]
           IN  <<f, to_dict_value(StoredAttr(i)[f], Ok(Absent), FALSE).v>>]
    \o << <<"inmemory", BoolV(TRUE)>> >>

\* the keys of Item.TYPE_DEPENDENCIES in the order of the table
DependencyOrder ==
    <<"package", "file", "mgmtclass", "repo", "distro", "menu", "profile", "image",
      "system">>

\* item_dict[attr_name] as the names it holds: a str or the elements of a list
names_in(item_dict, attr_name) ==
    LET found == SelectSeq(item_dict, LAMBDA e : e[1] = attr_name)
    IN  IF found = <<>> THEN <<>>
        ELSE IF found[1][2].k \in {"str", "inh"} THEN <<found[1][2].v>>
        ELSE IF found[1][2].k = "list" THEN found[1][2].v
        ELSE <<>>

\* the loops of deserialize over the table: the <<type, name>> pairs handed to
\* deserialize_ancestor, in their order
RECURSIVE ancestor_refs(_, _, _, _)
ancestor_refs(type_name, item_dict, t, d) ==
    IF t > Len(DependencyOrder) THEN <<>>
    ELSE LET ancestor_item_type == DependencyOrder[t]
             ancestor_deps == TYPE_DEPENDENCIES[ancestor_item_type]
         IN  IF d > Len(ancestor_deps) THEN ancestor_refs(type_name, item_dict, t + 1, 1)
             ELSE (IF ancestor_deps[d][1] = type_name
                   THEN [n \in 1..Len(names_in(item_dict, ancestor_deps[d][2])) |->
                            <<ancestor_item_type,
                              names_in(item_dict, ancestor_deps[d][2])[n]>>]
                   ELSE <<>>)
                  \o ancestor_refs(type_name, item_dict, t, d + 1)

\* the objects and memo slots while a chain of deserialize calls runs: order
\* lists the items in the order from_dict was applied to them
Loaded ==
    [obj |-> [i \in ItemIds |-> Fields(i)], cache |-> cache, order |-> <<>>, err |-> ""]

\* the state after from_dict(item_dict) returned done on the item i: the
\* fields of i, its emptied memo slots (from_dict ends with clean_cache()) and
\* the exception, if any
applied(st, i, done) ==
    [st EXCEPT
        !.obj[i] = done.o,
        !.cache = IF done.st \in {"ok", "KeyError"} /\ done.o.inmemory
                  THEN clean_dict_cache(@, i) ELSE @,
        !.order = Append(@, i),
        !.err = IF done.st \in {"ok", "return"} THEN "" ELSE done.st]

RECURSIVE deserialize(_, _, _)
RECURSIVE deserialize_ancestors(_, _, _)

\* deserialize_ancestor for each pair
deserialize_ancestors(st, refs, fuel) ==
    IF refs = <<>> \/ st.err # "" THEN st
    ELSE CHOOSE r \in
             {deserialize_ancestors(next, Tail(refs), fuel) :
                  next \in {IF /\ Head(refs)[2] \notin {"", Inh.v}
                               /\ Get(Head(refs)[1], Head(refs)[2]) # NoItem
                               /\ ~st.obj[Get(Head(refs)[1], Head(refs)[2])].inmemory
                            THEN deserialize(st, Get(Head(refs)[1], Head(refs)[2]), fuel)
                            ELSE st}} : TRUE

\* Item.deserialize
deserialize(st, i, fuel) ==
    IF fuel = 0 THEN [st EXCEPT !.err = "RecursionError"]
    ELSE CHOOSE r \in
             {IF before.err # "" THEN before
              ELSE CHOOSE a \in {applied(before, i, done) :
                                     done \in {from_dict(i, deserialize_item(i))}} : TRUE :
                  before \in
                      {IF <<"inmemory", BoolV(TRUE)>> \in Range(deserialize_item(i))
                       THEN deserialize_ancestors(
                                st, ancestor_refs(TypeOf(i), deserialize_item(i), 1, 1),
                                fuel - 1)
                       ELSE st}} : TRUE

\* to_dict that looks into the memo slot before it hydrates the item
ToDictMemoFirst(i, resolved) ==
    /\ nops < MaxOps
    /\ call.pc = "idle"
    /\ ~inmemory[i]
    /\ \E st \in {IF get_dict_cache(cache, i, resolved) # NoDict
                  THEN Loaded ELSE deserialize(Loaded, i, Fuel)} :
           /\ name' = [o \in ItemIds |-> st.obj[o].name]
           /\ parent' = [o \in ItemIds |-> st.obj[o].parent]
           /\ depth' = [o \in ItemIds |-> st.obj[o].depth]
           /\ uid' = [o \in ItemIds |-> st.obj[o].uid]
           /\ attr' = [o \in ItemIds |-> st.obj[o].attr]
           /\ inmemory' = [o \in ItemIds |-> st.obj[o].inmemory]
           /\ cache' = st.cache
           /\ call' = IF st.err # "" THEN NoCall
                      ELSE [pc |-> "hydrated", item |-> i, resolved |-> resolved,
                            order |-> st.order]
           /\ last' = Op("deserialize", i, Slot(resolved),
                         IF st.err # "" THEN Raise(st.err) ELSE Ok(List(st.order)), FALSE)
    /\ nops' = nops + 1
    /\ UNCHANGED <<objs, listing, hasInit, settings, cache_enabled, ctor, lockVars, isc>>

\* Item.to_dict on an item that is not in memory, up to the return of
\* self.deserialize(): an exception of deserialize ends the call
ToDictLazy(i, resolved) ==
    /\ nops < MaxOps
    /\ call.pc = "idle"
    /\ ~inmemory[i]
    /\ \E st \in {deserialize(Loaded, i, Fuel)} :
           /\ name' = [o \in ItemIds |-> st.obj[o].name]
           /\ parent' = [o \in ItemIds |-> st.obj[o].parent]
           /\ depth' = [o \in ItemIds |-> st.obj[o].depth]
           /\ uid' = [o \in ItemIds |-> st.obj[o].uid]
           /\ attr' = [o \in ItemIds |-> st.obj[o].attr]
           /\ inmemory' = [o \in ItemIds |-> st.obj[o].inmemory]
           /\ cache' = st.cache
           /\ call' = IF st.err # "" THEN NoCall
                      ELSE [pc |-> "hydrated", item |-> i, resolved |-> resolved,
                            order |-> st.order]
           /\ last' = Op("deserialize", i, Slot(resolved),
                         IF st.err # "" THEN Raise(st.err) ELSE Ok(List(st.order)), FALSE)
    /\ nops' = nops + 1
    /\ UNCHANGED <<objs, listing, hasInit, settings, cache_enabled, ctor, lockVars, isc>>

\* the rest of that to_dict call: the memo slot is asked and, if it is empty,
\* the fields are projected and the mapping is stored
ToDictReturn ==
    /\ call.pc = "hydrated"
    /\ \E cached_result \in {get_dict_cache(cache, call.item, call.resolved)} :
       \E value \in {IF cached_result # NoDict THEN cached_result
                     ELSE to_dict_compute(call.item, call.resolved)} :
           /\ cache' = IF cached_result = NoDict /\ value.k = "snap"
                       THEN set_dict_cache(cache, call.item, value, call.resolved)
                       ELSE cache
           /\ last' = [op |-> "to_dict", item |-> call.item, arg |-> Slot(call.resolved),
                       out |-> value, hit |-> cached_result # NoDict,
                       order |-> call.order]
    /\ call' = NoCall
    /\ UNCHANGED <<uid, lockVars, isc, objs, listing, name, parent, depth, attr, inmemory, hasInit,
                   settings, cache_enabled, ctor, nops>>

\* the stored items are registered; those of lazy are known by name only, the
\* others are in memory as stored, p1 with a comment edited since if edited
InitHydrate(lazy, edited) ==
    /\ objs = StoredObjs
    /\ listing = ListingOf(StoredObjs)
    /\ name = [i \in ItemIds |-> i]
    /\ parent = [i \in ItemIds |-> IF i \in lazy THEN "" ELSE StoredParent(i)]
    /\ depth = [i \in ItemIds |-> IF i = "p2" /\ i \notin lazy THEN 1 ELSE 0]
    /\ attr = [i \in ItemIds |->
                  IF i \in lazy \/ i \notin StoredObjs THEN DefaultAttr(i)
                  ELSE IF i = "p1" /\ edited
                  THEN [StoredAttr(i) EXCEPT !["comment"] = Str("edited")]
                  ELSE StoredAttr(i)]
    /\ inmemory = [i \in ItemIds |-> i \notin lazy]
    /\ hasInit = [i \in ItemIds |-> "true"]
    /\ cache = [i \in ItemIds |-> [raw |-> NoDict, res |-> NoDict]]
    /\ settings = DefaultSettings
    /\ cache_enabled = TRUE
    /\ ctor = Idle
    /\ last = Op("init", NoItem, "", NoDict, FALSE)
    /\ nops = 0
    /\ EnvIdle

NextHydrate ==
    \/ \E i \in objs, resolved \in BOOLEAN : ToDictLazy(i, resolved)
    \/ ToDictReturn
    \/ /\ call.pc = "idle"
       /\ \E i \in objs, resolved \in BOOLEAN : ToDict(i, resolved)
    \/ /\ call.pc = "idle"
       /\ \E i \in objs, b \in BOOLEAN : SetInmemory(i, b)

SpecHydrate ==
    (\E lazy \in SUBSET StoredObjs, edited \in BOOLEAN : InitHydrate(lazy, edited))
        /\ [][NextHydrate]_vars

\* the registered items the stored record of x names through the dependency
\* table: its parent, its distro and its management classes
ReferencedBy(x) ==
    {Get(TypeOf(x), StoredParent(x))} \cup
    (IF "distro" \in FieldsOf(x) THEN {Get("distro", StoredAttr(x)["distro"].v)} ELSE {})
    \cup (IF StoredAttr(x)["mgmt_classes"].k = "list"
          THEN {Get("mgmtclass", n) : n \in Range(StoredAttr(x)["mgmt_classes"].v)}
          ELSE {})

\* a to_dict call on an item that was not in memory returns the projection of
\* the hydrated fields: the item is in memory, the record was applied to it
\* after all others, and the mapping is the one computed from the fields
HydratedFirst ==
    (last.op = "to_dict" /\ "order" \in DOMAIN last) =>
        /\ inmemory[last.item]
        /\ last.order # <<>> /\ last.order[Len(last.order)] = last.item
        /\ last.out = to_dict_compute(last.item, last.arg = "res")

\* every item hydrated in the step had the referenced ancestors that were not
\* in memory hydrated earlier in the same step
AncestorsFirst ==
    (last'.op = "deserialize" /\ last'.out.st = "ok") =>
        \A k \in DOMAIN last'.out.v.v :
            \A a \in ReferencedBy(last'.out.v.v[k]) \ {NoItem} :
                ~inmemory[a] => \E j \in 1..(k - 1) : last'.out.v.v[j] = a

\* the memo slot is asked and the fields are projected only in a step that
\* starts with the item in memory
ReadsAfterHydration ==
    (last'.op = "to_dict" /\ "order" \in DOMAIN last') => inmemory[last'.item]

\* C25: to_dict on an item that is not in memory hydrates it before it asks
\* the memo slot or projects an attribute, and deserialize hydrates every
\* referenced ancestor that is not in memory before it applies the record to
\* the item itself.
C25_HydrateBeforeUse ==
    /\ []HydratedFirst
    /\ [][AncestorsFirst /\ ReadsAfterHydration]_vars

\* to_dict on the sub-profile p2 hydrated the management class, the distro and
\* the parent profile before p2
C25_Witness ==
    /\ last.op = "to_dict" /\ "order" \in DOMAIN last
    /\ last.order = <<"m1", "d1", "p1", "p2">>
    /\ \A i \in StoredObjs : inmemory[i]
    /\ last.out.v["parent"] = Str("p1")

-----------------------------------------------------------------------------
(* from_dict(to_dict()) on a new item (C26) *)

\* the new profile: constructed, named "", without parent, not registered
FreshItem == "p4"

\* the order of the entries of the mapping to_dict builds: the order of the
\* private fields, then the two legacy names
DictOrder ==
    <<"uid", "name", "comment", "parent", "depth">> \o FieldOrder \o <<"kickstart", "ks_meta">>

\* dictionary.items() for the mapping value
dict_items(value) ==
    [n \in 1..Len(SelectSeq(DictOrder, LAMBDA f : f \in DOMAIN value.v)) |->
        LET f == SelectSeq(DictOrder, LAMBDA g : g \in DOMAIN value.v)[n]
        IN  <<f, value.v[f]>>]

\* the mapping after from_dict took the deprecated keys out of it
popped(value) ==
    Snap([f \in DOMAIN value.v \ DeprecatedKeys |-> value.v[f]])

\* fresh.from_dict(item.to_dict()) for a new item fresh of the type of i, which
\* is dropped afterwards.  The mapping is the one the raw slot of i holds when
\* the cache is enabled, and from_dict removes the deprecated keys from it.
RoundTrip(i) ==
    /\ nops < MaxOps
    /\ i # FreshItem /\ TypeOf(i) = TypeOf(FreshItem)
    /\ Hydrated(i)
    /\ \E value \in {IF get_dict_cache(cache, i, FALSE) # NoDict
                     THEN get_dict_cache(cache, i, FALSE)
                     ELSE to_dict_compute(i, FALSE)} :
       \E done \in {from_dict(FreshItem, dict_items(value))} :
           /\ cache' = set_dict_cache(cache, i, popped(value), FALSE)
           /\ last' = Op("round_trip", i, "raw", [st |-> done.st, v |-> done.o],
                         get_dict_cache(cache, i, FALSE) # NoDict)
    /\ nops' = nops + 1
    /\ UNCHANGED <<envVars, objs, listing, name, parent, depth, attr, inmemory, hasInit,
                   settings, cache_enabled, ctor>>

\* the profiles p1, p2 and p3 are registered, p2 and p3 with the parent up
\* gives them; the new profile is not
InitRoundTrip(up) ==
    /\ objs = {"d1", "m1", "p1", "p2", "p3", FreshItem}
    /\ listing = ListingOf({"d1", "m1", "p1", "p2", "p3"})
    /\ name = [i \in ItemIds |-> IF i = FreshItem THEN "" ELSE i]
    /\ parent = [i \in ItemIds |-> IF i \in DOMAIN up THEN up[i] ELSE ""]
    /\ depth = [i \in ItemIds |-> depth_in(up, i)]
    /\ attr = [i \in ItemIds |->
                  IF i = "p1" THEN [DefaultAttr(i) EXCEPT !["distro"] = Str("d1")]
                  ELSE DefaultAttr(i)]
    /\ inmemory = [i \in ItemIds |-> TRUE]
    /\ hasInit = [i \in ItemIds |-> "true"]
    /\ cache = [i \in ItemIds |-> [raw |-> NoDict, res |-> NoDict]]
    /\ settings = DefaultSettings
    /\ cache_enabled = TRUE
    /\ ctor = Idle
    /\ last = Op("init", NoItem, "", NoDict, FALSE)
    /\ nops = 0
    /\ EnvIdle

NextRoundTrip ==
    \/ \E i \in {"p1", "p2", "p3"} : RoundTrip(i)
    \/ \E i \in {"p2", "p3"} : \E n \in {"", "p1", "p2"} : SetParent(i, n)
    \/ \E chars \in NameInputs \cup {<<"p", "2">>} : SetName("p3", chars)
    \/ \E i \in {"p1", "p2", "p3"} : \E f \in SetterFields(i) : \E val \in SetterInputs(f) :
           SetAttr(i, f, val)
    \/ \E i \in {"p2", "p3"} : ToDict(i, FALSE)

SpecRoundTrip ==
    /\ \E up \in {[p \in {"p2", "p3"} |-> ""],
                  [p \in {"p2", "p3"} |-> IF p = "p2" THEN "p1" ELSE "p2"]} :
           InitRoundTrip(up)
    /\ [][NextRoundTrip]_vars

\* the new item has the settable stored fields of the item it was made from
SameFields(o, i) ==
    /\ o.name = name[i]
    /\ o.parent = parent[i]
    /\ o.depth = depth[i]
    /\ \A f \in FieldsOf(i) : o.attr[f] = attr[i][f]

\* C26: for every item, from_dict of its to_dict on a new item of the same type
\* succeeds, and the new item has the name, comment, parent, depth, owners,
\* mgmt_classes and dict attributes of the item, the inherit markers included.
C26_RoundTrip ==
    last.op = "round_trip" =>
        /\ last.out.st = "ok"
        /\ SameFields(last.out.v, last.item)

\* the round trip of an item that is not named like its parent
RoundTripOfOthers ==
    (last.op = "round_trip" /\ name[last.item] # parent[last.item]) =>
        /\ last.out.st = "ok"
        /\ SameFields(last.out.v, last.item)

\* the round trip of an item that is named like its parent ends in CX
RoundTripOfNamesake ==
    (last.op = "round_trip" /\ name[last.item] = parent[last.item]
        /\ parent[last.item] # "") => last.out.st = "CX"

-----------------------------------------------------------------------------
(* The uid and name setters and the lock of the collection (C27) *)

\* the items the collection holds
Members == {"p1", "p2", "p3"}

Uids == {"u1", "u2"}

\* BaseItem.uid (setter) up to the with statement: an equal uid is assigned at
\* once.  COLLECTION_TYPE != Item.COLLECTION_TYPE holds for every concrete class.
UidCall(t, i, u) ==
    /\ nops < MaxOps
    /\ thr[t].pc = "idle"
    /\ \A o \in Threads : thr[o].item # i
    /\ IF uid[i] # u
       THEN thr' = [thr EXCEPT ![t] = [pc |-> "acquire", item |-> i, arg |-> u]]
       ELSE thr' = thr
    /\ last' = Op("uid", i, u, Ok(Absent), FALSE)
    /\ nops' = nops + 1
    /\ UNCHANGED <<uid, call, isc, lock, objs, listing, name, parent, depth, attr, inmemory,
                   hasInit, cache, settings, cache_enabled, ctor>>

\* with collection.lock: the thread waits until the lock is free
UidAcquire(t) ==
    /\ thr[t].pc = "acquire"
    /\ lock = ""
    /\ lock' = t
    /\ thr' = [thr EXCEPT ![t].pc = "locked"]
    /\ UNCHANGED <<uid, call, isc, objs, listing, name, parent, depth, attr, inmemory, hasInit,
                   cache, settings, cache_enabled, ctor, last, nops>>

\* if collection.get(name) is not None: collection.listing.pop(name); else the
\* with statement ends and the lock is released
UidPop(t) ==
    /\ thr[t].pc = "locked"
    /\ IF Get(TypeOf(thr[t].item), lower(name[thr[t].item])) # NoItem
       THEN /\ listing' = [listing EXCEPT
                              ![TypeOf(thr[t].item)][lower(name[thr[t].item])] = NoItem]
            /\ lock' = lock
            /\ thr' = [thr EXCEPT ![t].pc = "popped"]
       ELSE /\ listing' = listing
            /\ lock' = ""
            /\ thr' = [thr EXCEPT ![t].pc = "outside"]
    /\ UNCHANGED <<uid, call, isc, objs, name, parent, depth, attr, inmemory, hasInit, cache,
                   settings, cache_enabled, ctor, last, nops>>

\* self._uid = uid, inside the with statement or after it
UidStore(t) ==
    /\ thr[t].pc \in {"popped", "outside"}
    /\ cache' = setattr_cache(cache, thr[t].item, "_uid")
    /\ uid' = [uid EXCEPT ![thr[t].item] = thr[t].arg]
    /\ thr' = [thr EXCEPT ![t] = IF thr[t].pc = "popped" THEN [@ EXCEPT !.pc = "stored"]
                                 ELSE NoThread]
    /\ UNCHANGED <<call, isc, lock, objs, listing, name, parent, depth, attr, inmemory, hasInit,
                   settings, cache_enabled, ctor, last, nops>>

\* collection.listing[name] = self; return, which releases the lock
UidReinsert(t) ==
    /\ thr[t].pc = "stored"
    /\ listing' = [listing EXCEPT
                      ![TypeOf(thr[t].item)][lower(name[thr[t].item])] = thr[t].item]
    /\ lock' = ""
    /\ thr' = [thr EXCEPT ![t] = NoThread]
    /\ UNCHANGED <<uid, call, isc, objs, name, parent, depth, attr, inmemory, hasInit, cache,
                   settings, cache_enabled, ctor, last, nops>>

\* a thread that holds the lock while it looks the item up under its name
Observe(t, i) ==
    /\ nops < MaxOps
    /\ thr[t].pc = "idle"
    /\ lock = ""
    /\ last' = Op("observe", i, name[i], Get(TypeOf(i), name[i]), FALSE)
    /\ nops' = nops + 1
    /\ UNCHANGED <<envVars, objs, listing, name, parent, depth, attr, inmemory, hasInit,
                   cache, settings, cache_enabled, ctor>>

NextLock ==
    \/ \E t \in Threads, i \in {"p2", "p4"}, u \in Uids : UidCall(t, i, u)
    \/ \E t \in Threads : UidAcquire(t)
    \/ \E t \in Threads : UidPop(t)
    \/ \E t \in Threads : UidStore(t)
    \/ \E t \in Threads : UidReinsert(t)
    \/ \E chars \in NameInputs : SetName("p2", chars)
    \/ \E t \in Threads, i \in {"p2", "p3"} : Observe(t, i)

SpecLock ==
    /\ \E forest \in Forests : InitGraphOf(forest, GraphObjs \ {"p4"})
    /\ [][NextLock]_vars

\* a step that changes the name or the uid of i is taken with the lock held
\* before and after it
ChangedUnderLock(i) ==
    (name'[i] # name[i] \/ uid'[i] # uid[i]) => (lock # "" /\ lock' = lock)

\* the lookup under the lock finds the item under its name
ObservedEntry ==
    last.op = "observe" => last.out = last.item

\* C27: whenever the name or the uid of an item of the collection is changed,
\* the lock of the collection is held for the whole change, and no other thread
\* sees the table without the entry of the item.
C27_IdentityChangeUnderLock ==
    /\ [][\A i \in Members : ChangedUnderLock(i)]_vars
    /\ []ObservedEntry

\* as long as the members keep their names, the uid of a member changes under
\* the lock and the lookups find the members
UidChangeUnderLock ==
    /\ [][(\A i \in Members : name'[i] = i) =>
              \A i \in Members : ChangedUnderLock(i)]_vars
    /\ []((\A i \in Members : name[i] = i) => ObservedEntry)

-----------------------------------------------------------------------------
(* _IscManager._gen_system_config (C28, C29) *)

SlaveTypes == {"bond_slave", "bridge_slave", "bonded_bridge_slave"}

\* the keys of system_obj.interfaces
iface_names(interfaces) == {p[1] : p \in Range(interfaces)}

\* system_obj.interfaces[n]
iface_of(interfaces, n) == (CHOOSE p \in Range(interfaces) : p[1] = n)[2]

\* the interface names of two characters
TwoChars == {"e0", "e1", "b0"}

\* _find_ip_addr: "for name, obj in interfaces" goes over the keys of the
\* mapping and takes each key, a string, apart into name and obj, which raises
\* ValueError unless the key has two characters; the first character of such
\* a key never starts with prefix + ".", so the loop ends without a find
_find_ip_addr(interfaces, prefix, ip_version) ==
    IF ip_version \notin {"ipv4", "ipv6"} THEN Ok("")
    ELSE IF \E n \in iface_names(interfaces) : n \notin TwoChars THEN Raise("ValueError")
    ELSE Ok("")

\* System.is_management_supported: a MAC, IPv4 or IPv6 address is required
is_management_supported(system_obj) ==
    \E p \in Range(system_obj.interfaces) :
        p[2].mac_address # "" \/ p[2].ip_address # "" \/ p[2].ipv6_address # ""

\* iface["name"]: the host name, followed by the interface name unless that is
\* eth0, or a counted generic name
entry_name(host, iface_name, cnt) ==
    IF host # ""
    THEN (IF iface_name = "eth0" THEN host ELSE host \o "-" \o iface_name)
    ELSE "generic" \o ToString(cnt)

\* an interface that passes for one with a MAC address whatever it has
no_mac_never(mac) == FALSE

\* not mac
no_mac(mac) == mac = ""

\* the local variables of _gen_system_config at the start of the loop; visited
\* lists the interfaces the loop has come to
GenStart(cnt) ==
    [dhcp_tags |-> ("default" :> <<>>), processed |-> {}, ignore_macs |-> {},
     generic_entry_cnt |-> cnt, err |-> "", visited |-> <<>>]

\* one pass of the loop over system_obj.interfaces.items()
gen_iface(st, iface_name, iface_obj, system_obj, always_write) ==
    LET interfaces == system_obj.interfaces
        slave == iface_obj.interface_type \in SlaveTypes
        master_name == iface_obj.interface_master
        mac == iface_obj.mac_address
        seen == [st EXCEPT !.visited = Append(@, iface_name)]
    IN  IF slave /\ master_name \notin iface_names(interfaces) THEN seen
        ELSE LET master_iface == IF slave THEN iface_of(interfaces, master_name)
                                 ELSE iface_obj
                 system_master_name == system_obj.name \o "-" \o master_name
                 marked == IF ~slave THEN seen
                           ELSE IF system_master_name \notin seen.processed
                           THEN [seen EXCEPT !.processed = @ \cup {system_master_name}]
                           ELSE [seen EXCEPT !.ignore_macs = @ \cup {mac}]
                 ip_address == IF slave /\ master_iface.ip_address = ""
                               THEN _find_ip_addr(interfaces, master_name, "ipv4")
                               ELSE Ok(master_iface.ip_address)
                 ipv6_address == IF slave /\ master_iface.ipv6_address = ""
                                 THEN _find_ip_addr(interfaces, master_name, "ipv6")
                                 ELSE Ok(master_iface.ipv6_address)
                 host == master_iface.dns_name
                 dhcp_tag == IF master_iface.dhcp_tag = "" THEN "default"
                             ELSE master_iface.dhcp_tag
                 cnt == IF host = "" THEN marked.generic_entry_cnt + 1
                        ELSE marked.generic_entry_cnt
                 iface == [name |-> entry_name(host, iface_name, cnt),
                           mac_address |-> mac,
                           interface_type |-> iface_obj.interface_type,
                           interface_master |-> master_name,
                           ip_address |-> ip_address.v,
                           ipv6_address |-> ipv6_address.v,
                           static |-> iface_obj.static,
                           netboot_enabled |-> system_obj.netboot_enabled]
             IN  IF ip_address.st # "ok" THEN [marked EXCEPT !.err = ip_address.st]
                 ELSE IF ipv6_address.st # "ok"
                 THEN [marked EXCEPT !.err = ipv6_address.st]
                 ELSE IF no_mac(mac) THEN marked
                 ELSE IF ~always_write /\ ~system_obj.netboot_enabled /\ iface_obj.static
                 THEN [marked EXCEPT !.generic_entry_cnt = cnt]
                 ELSE [marked EXCEPT
                          !.generic_entry_cnt = cnt,
                          !.dhcp_tags =
                              (dhcp_tag :>
                                  ((mac :> iface) @@
                                   (IF dhcp_tag \in DOMAIN @ THEN @[dhcp_tag] ELSE <<>>)))
                              @@ @]

RECURSIVE gen_loop(_, _, _, _)
\* the loop over the interfaces, which an exception ends
gen_loop(st, items, system_obj, always_write) ==
    IF items = <<>> \/ st.err # "" THEN st
    ELSE gen_loop(gen_iface(st, Head(items)[1], Head(items)[2], system_obj, always_write),
                  Tail(items), system_obj, always_write)

\* the loop that deletes the ignored MAC addresses from every tag
without_ignored(dhcp_tags, ignore_macs) ==
    [t \in DOMAIN dhcp_tags |->
        [m \in DOMAIN dhcp_tags[t] \ ignore_macs |-> dhcp_tags[t][m]]]

\* what the loop left, as the outcome of _gen_system_config
gen_return(st) ==
    [out |-> IF st.err # "" THEN Raise(st.err)
             ELSE Ok(without_ignored(st.dhcp_tags, st.ignore_macs)),
     generic_entry_cnt |-> st.generic_entry_cnt,
     visited |-> st.visited]

\* _IscManager._gen_system_config, cnt being self.generic_entry_cnt
_gen_system_config(system_obj, always_write, cnt) ==
    IF ~is_management_supported(system_obj)
    THEN [out |-> Ok(<<>>), generic_entry_cnt |-> cnt, visited |-> <<>>]
    ELSE gen_return(gen_loop(GenStart(cnt), system_obj.interfaces, system_obj,
                             always_write))

\* a call of _gen_system_config for the system of the manager
GenSystemConfig ==
    /\ nops < MaxOps
    /\ isc # NoManager
    /\ \E r \in {_gen_system_config(isc.system, isc.settings.always_write_dhcp_entries,
                                    isc.generic_entry_cnt)} :
           /\ isc' = [isc EXCEPT !.generic_entry_cnt = r.generic_entry_cnt]
           /\ last' = [op |-> "_gen_system_config", item |-> isc.system.name, arg |-> "",
                       out |-> r.out, hit |-> FALSE, visited |-> r.visited]
    /\ nops' = nops + 1
    /\ UNCHANGED <<uid, call, lockVars, objs, listing, name, parent, depth, attr, inmemory,
                   hasInit, cache, settings, cache_enabled, ctor>>

Macs == {"", "aa", "bb"}

\* an interface that is not part of a bond
Plain(mac) ==
    [interface_type |-> "na", interface_master |-> "", mac_address |-> mac,
     dns_name |-> "", dhcp_tag |-> "", ip_address |-> "", ipv6_address |-> "",
     static |-> FALSE]

\* the Ethernet interfaces: plain, slave of master, slave of a bond that the
\* system does not have
EthChoices(master) ==
    {Plain(mac) : mac \in Macs} \cup
    {[Plain(mac) EXCEPT !.interface_type = "bond_slave", !.interface_master = m] :
         mac \in Macs, m \in {master, "bond9"}}

\* the bond masters: with or without host name, tag and IPv6 address
BondChoices ==
    {[Plain("cc") EXCEPT !.interface_type = "bond", !.dns_name = h, !.dhcp_tag = t,
                         !.ip_address = "10.0.0.1", !.ipv6_address = a] :
         h \in {"", "h"}, t \in {"", "t"}, a \in {"", "fd00::1"}}

\* the systems of profile p1: two Ethernet interfaces, the second static or not,
\* and possibly a bond master before or after them
Systems ==
    {[name |-> "s1", profile |-> "p1", netboot_enabled |-> nb, interfaces |-> q] :
         nb \in BOOLEAN,
         q \in UNION {
             {<< <<ns[1], a>>, <<ns[2], [b EXCEPT !.static = s]>> >> :
                  a \in EthChoices(ns[3]), b \in EthChoices(ns[3]), s \in BOOLEAN}
             \cup
             UNION {{<< <<ns[3], m>>, <<ns[1], a>>, <<ns[2], [b EXCEPT !.static = s]>> >>,
                     << <<ns[1], a>>, <<ns[2], [b EXCEPT !.static = s]>>, <<ns[3], m>> >>} :
                        a \in EthChoices(ns[3]), b \in EthChoices(ns[3]), s \in BOOLEAN,
                        m \in BondChoices} :
             ns \in {<<"eth0", "eth1", "bond0">>, <<"e0", "e1", "b0">>}}}

\* the fields of the manager after __init__
Manager(system_obj, conf) ==
    [k |-> "isc", system |-> system_obj, settings |-> conf, config |-> <<>>,
     generic_entry_cnt |-> 0, calls |-> <<>>]

\* the settings the manager reads
IscSettings(always_write, v4, v6, restart) ==
    [always_write_dhcp_entries |-> always_write, manage_dhcp_v4 |-> v4,
     manage_dhcp_v6 |-> v6, restart_dhcp |-> restart]

\* the manager after __init__ for the system and the settings, and the items
InitManager(system_obj, conf) ==
    /\ objs = {"d1", "p1", "s1"}
    /\ listing = ListingOf({"d1", "p1", "s1"})
    /\ name = [i \in ItemIds |-> i]
    /\ parent = [i \in ItemIds |-> ""]
    /\ depth = [i \in ItemIds |-> 0]
    /\ attr = [i \in ItemIds |-> DefaultAttr(i)]
    /\ inmemory = [i \in ItemIds |-> TRUE]
    /\ hasInit = [i \in ItemIds |-> "true"]
    /\ cache = [i \in ItemIds |-> [raw |-> NoDict, res |-> NoDict]]
    /\ settings = DefaultSettings
    /\ cache_enabled = TRUE
    /\ ctor = Idle
    /\ last = Op("init", NoItem, "", NoDict, FALSE)
    /\ nops = 0
    /\ uid = [i \in ItemIds |-> NewUid(i)]
    /\ call = NoCall
    /\ lock = ""
    /\ thr = [t \in Threads |-> NoThread]
    /\ isc = Manager(system_obj, conf)

SpecGen ==
    /\ \E system_obj \in Systems, always_write \in BOOLEAN :
           InitManager(system_obj, IscSettings(always_write, TRUE, TRUE, TRUE))
    /\ [][GenSystemConfig]_vars

\* the interfaces at k1 and k2 are slaves of the same master of the system and
\* have the same MAC address
SharedMac(interfaces, k1, k2) ==
    /\ k1 < k2
    /\ interfaces[k1][2].interface_type \in SlaveTypes
    /\ interfaces[k2][2].interface_type \in SlaveTypes
    /\ interfaces[k1][2].interface_master = interfaces[k2][2].interface_master
    /\ interfaces[k1][2].interface_master \in iface_names(interfaces)
    /\ interfaces[k1][2].mac_address = interfaces[k2][2].mac_address
    /\ interfaces[k1][2].mac_address # ""

\* no interface is held back for being static while netboot is disabled
AllWritten ==
    \/ isc.settings.always_write_dhcp_entries
    \/ isc.system.netboot_enabled
    \/ \A p \in Range(isc.system.interfaces) : ~p[2].static

\* the tags that hold an entry for the MAC address
TagsWith(dhcp_tags, mac) == {t \in DOMAIN dhcp_tags : mac \in DOMAIN dhcp_tags[t]}

\* C28: when two slave interfaces of a system share the bond master and the MAC
\* address, the mapping generated for the system holds one entry for that MAC
\* address, and it is the descriptor of the first of the two.
C28_FirstOfBondKept ==
    (last.op = "_gen_system_config" /\ last.out.st = "ok" /\ AllWritten) =>
        \A k1, k2 \in DOMAIN isc.system.interfaces :
            SharedMac(isc.system.interfaces, k1, k2) =>
                LET first == isc.system.interfaces[k1]
                    host == iface_of(isc.system.interfaces,
                                     first[2].interface_master).dns_name
                IN  /\ Cardinality(TagsWith(last.out.v, first[2].mac_address)) = 1
                    /\ host # "" =>
                           \A t \in TagsWith(last.out.v, first[2].mac_address) :
                               last.out.v[t][first[2].mac_address].name =
                                   entry_name(host, first[1], 0)

\* what happens instead: the shared MAC address has no entry under any tag
SharedMacLosesEntry ==
    (last.op = "_gen_system_config" /\ last.out.st = "ok") =>
        \A k1, k2 \in DOMAIN isc.system.interfaces :
            SharedMac(isc.system.interfaces, k1, k2) =>
                TagsWith(last.out.v, isc.system.interfaces[k1][2].mac_address) = {}

\* the interface at k has no MAC address or is the slave of a master that the
\* system does not have
SkipKind(interfaces, k) ==
    \/ interfaces[k][2].mac_address = ""
    \/ /\ interfaces[k][2].interface_type \in SlaveTypes
       /\ interfaces[k][2].interface_master \notin iface_names(interfaces)

\* the entry was made for an interface of the system that is not skipped
MadeForKept(interfaces, mac, iface) ==
    \E k \in DOMAIN interfaces :
        /\ ~SkipKind(interfaces, k)
        /\ interfaces[k][2].mac_address = mac
        /\ interfaces[k][2].interface_type = iface.interface_type
        /\ interfaces[k][2].interface_master = iface.interface_master

-----------------------------------------------------------------------------
(* _IscManager.sync, sync_single_system and restart_service (C30) *)

\* the exit statuses of the subprocesses
Statuses == 0..2

RECURSIVE BitOr(_, _)
\* a | b for exit statuses that are not negative
BitOr(a, b) ==
    IF a = 0 THEN b
    ELSE IF b = 0 THEN a
    ELSE (IF a % 2 = 1 \/ b % 2 = 1 THEN 1 ELSE 0) + 2 * BitOr(a \div 2, b \div 2)

\* utils.dhcp_service_name() for v4, the fixed name for v6
ServiceName == [v \in {"v4", "v6"} |-> IF v = "v4" THEN "dhcpd" ELSE "dhcpd6"]

\* restart_dhcp: the test of the configuration, whose status is only logged,
\* then the restart, whose status is returned
restart_dhcp(service_name, test, status) ==
    [ret |-> status,
     calls |-> << <<"subprocess_call", service_name>>,
                  <<"service_restart", service_name>> >>]

\* restart_service that gives up after the first failure
restart_service_until_failure(conf, test, status) ==
    IF ~conf.restart_dhcp THEN [ret |-> 0, calls |-> <<>>]
    ELSE LET v4 == IF conf.manage_dhcp_v4
                   THEN restart_dhcp(ServiceName["v4"], test, status["v4"])
                   ELSE [ret |-> 0, calls |-> <<>>]
             v6 == IF conf.manage_dhcp_v6 /\ v4.ret = 0
                   THEN restart_dhcp(ServiceName["v6"], test, status["v6"])
                   ELSE [ret |-> 0, calls |-> <<>>]
         IN  [ret |-> BitOr(BitOr(0, v4.ret), v6.ret), calls |-> v4.calls \o v6.calls]

\* _IscManager.restart_service, test and status being what the subprocesses
\* return
restart_service(conf, test, status) ==
    IF ~conf.restart_dhcp THEN [ret |-> 0, calls |-> <<>>]
    ELSE LET v4 == IF conf.manage_dhcp_v4
                   THEN restart_dhcp(ServiceName["v4"], test, status["v4"])
                   ELSE [ret |-> 0, calls |-> <<>>]
             v6 == IF conf.manage_dhcp_v6
                   THEN restart_dhcp(ServiceName["v6"], test, status["v6"])
                   ELSE [ret |-> 0, calls |-> <<>>]
         IN  [ret |-> BitOr(BitOr(0, v4.ret), v6.ret), calls |-> v4.calls \o v6.calls]

\* _write_config that lets the OSError of open() pass
_write_config_raising(v, readable) ==
    IF readable[v] THEN [err |-> "", calls |-> << <<"open", v>>, <<"render", v>> >>]
    ELSE [err |-> "OSError", calls |-> << <<"open", v>> >>]

\* _write_config: the OSError of a template that cannot be read is logged and
\* ends the write of that version
_write_config(v, readable) ==
    IF readable[v] THEN [err |-> "", calls |-> << <<"open", v>>, <<"render", v>> >>]
    ELSE [err |-> "", calls |-> << <<"open", v>>, <<"logger.error", v>> >>]

\* write_configs: the calls it makes and the exception that ends it, which is
\* ValueError for an empty config
write_configs(config_data, conf, readable) ==
    IF config_data = <<>> THEN [err |-> "ValueError", calls |-> <<>>]
    ELSE LET v4 == IF conf.manage_dhcp_v4 THEN _write_config("v4", readable)
                   ELSE [err |-> "", calls |-> <<>>]
             v6 == IF conf.manage_dhcp_v6 /\ v4.err = ""
                   THEN _write_config("v6", readable)
                   ELSE [err |-> "", calls |-> <<>>]
         IN  [err |-> IF v4.err # "" THEN v4.err ELSE v6.err,
              calls |-> v4.calls \o v6.calls]

\* utils.merge_dicts_recursive on two mappings from tag to MAC to descriptor
merge_dicts_recursive(base_dict, updating_dict) ==
    [t \in DOMAIN base_dict \cup DOMAIN updating_dict |->
        IF t \notin DOMAIN base_dict THEN updating_dict[t]
        ELSE IF t \notin DOMAIN updating_dict THEN base_dict[t]
        ELSE updating_dict[t] @@ base_dict[t]]

\* the handler after config was computed: write_configs, then restart_service
write_and_restart(config, cnt, test, status, readable) ==
    LET written == write_configs(config, isc.settings, readable)
        restarted == restart_service(isc.settings, test, status)
    IN  IF written.err # ""
        THEN [out |-> Raise(written.err), config |-> config, cnt |-> cnt,
              calls |-> written.calls]
        ELSE [out |-> Ok(IntV(restarted.ret)), config |-> config, cnt |-> cnt,
              calls |-> written.calls \o restarted.calls]

\* _IscManager.sync over the systems, which are the system of the manager:
\* _gen_full_config skips a system without profile; the metadata besides
\* dhcp_tags are left out
sync(test, status, readable) ==
    LET generated == IF isc.system.profile = NoItem
                     THEN [out |-> Ok(<<>>), generic_entry_cnt |-> 0]
                     ELSE _gen_system_config(
                              isc.system, isc.settings.always_write_dhcp_entries, 0)
    IN  IF generated.out.st # "ok"
        THEN [out |-> generated.out, config |-> isc.config,
              cnt |-> generated.generic_entry_cnt, calls |-> <<>>]
        ELSE write_and_restart(
                 "dhcp_tags" :> merge_dicts_recursive("default" :> <<>>, generated.out.v),
                 generated.generic_entry_cnt, test, status, readable)

\* _IscManager.sync_single_system: a system without profile ends it with
\* AttributeError
sync_single_system(test, status, readable) ==
    LET generated == IF isc.system.profile = NoItem
                     THEN [out |-> Raise("AttributeError"),
                           generic_entry_cnt |-> isc.generic_entry_cnt]
                     ELSE _gen_system_config(
                              isc.system, isc.settings.always_write_dhcp_entries,
                              isc.generic_entry_cnt)
    IN  IF generated.out.st # "ok"
        THEN [out |-> generated.out, config |-> isc.config,
              cnt |-> generated.generic_entry_cnt, calls |-> <<>>]
        ELSE write_and_restart(
                 "dhcp_tags" :>
                     (IF isc.config = <<>> THEN generated.out.v
                      ELSE merge_dicts_recursive(isc.config["dhcp_tags"], generated.out.v)),
                 generated.generic_entry_cnt, test, status, readable)

\* the manager and the record of the call after a handler returned done
Handled(op, done, test, status) ==
    /\ isc' = [isc EXCEPT !.config = done.config, !.generic_entry_cnt = done.cnt,
                          !.calls = done.calls]
    /\ last' = Op(op, isc.system.name, [status |-> status], done.out, FALSE)
    /\ nops' = nops + 1
    /\ UNCHANGED <<uid, call, lockVars, objs, listing, name, parent, depth, attr, inmemory,
                   hasInit, cache, settings, cache_enabled, ctor>>

Sync(test, status, readable) ==
    /\ nops < MaxOps
    /\ isc # NoManager
    /\ \E done \in {sync(test, status, readable)} : Handled("sync", done, test, status)

SyncSingleSystem(test, status, readable) ==
    /\ nops < MaxOps
    /\ isc # NoManager
    /\ \E done \in {sync_single_system(test, status, readable)} :
           Handled("sync_single_system", done, test, status)

RestartService(test, status) ==
    /\ nops < MaxOps
    /\ isc # NoManager
    /\ \E done \in {restart_service(isc.settings, test, status)} :
           Handled("restart_service",
                   [out |-> Ok(IntV(done.ret)), config |-> isc.config,
                    cnt |-> isc.generic_entry_cnt, calls |-> done.calls],
                   test, status)

Versions == {"v4", "v6"}

\* both templates can be read, or only that of v6
Readable == {[v \in Versions |-> TRUE], [v \in Versions |-> v = "v6"]}

NextSync ==
    \/ \E test \in {0, 1}, status \in [Versions -> Statuses], readable \in Readable :
           Sync(test, status, readable)
    \/ \E test \in {0, 1}, status \in [Versions -> Statuses], readable \in Readable :
           SyncSingleSystem(test, status, readable)
    \/ \E test \in {0, 1}, status \in [Versions -> Statuses] :
           RestartService(test, status)

\* a system with one interface; a bond whose master has no IPv6 address; a
\* system without addresses
SyncSystems ==
    {[name |-> "s1", profile |-> "p1", netboot_enabled |-> TRUE, interfaces |-> q] :
         q \in {<< <<"eth0", Plain("aa")>> >>,
                << <<"eth0", [Plain("aa") EXCEPT !.interface_type = "bond_slave",
                                                 !.interface_master = "bond0"]>>,
                   <<"bond0", [Plain("cc") EXCEPT !.ip_address = "10.0.0.1"]>> >>,
                << <<"eth0", Plain("")>> >>}}

SpecSync ==
    /\ \E system_obj \in SyncSystems, profile \in {"p1", NoItem},
          v4 \in BOOLEAN, v6 \in BOOLEAN, restart \in BOOLEAN :
           InitManager([system_obj EXCEPT !.profile = profile],
                       IscSettings(FALSE, v4, v6, restart))
    /\ [][NextSync]_vars

\* the versions whose configuration the manager manages
EnabledVersions ==
    {v \in Versions : IF v = "v4" THEN isc.settings.manage_dhcp_v4
                      ELSE isc.settings.manage_dhcp_v6}

\* the services restarted by the last handler, in the order of the calls
Restarted == SelectSeq(isc.calls, LAMBDA c : c[1] = "service_restart")

\* the last handler returned the status of restart_service
ReturnedStatus ==
    /\ last.op \in {"sync", "sync_single_system", "restart_service"}
    /\ last.out.st = "ok"

\* restart_service: nothing is restarted and 0 is returned when restart_dhcp is
\* off; otherwise every enabled version is restarted, and the value returned is
\* the bitwise OR of the statuses, which is not 0 exactly if one of them is not
RestartsAndReturns ==
    ReturnedStatus =>
        IF ~isc.settings.restart_dhcp
        THEN /\ last.out.v = IntV(0)
             /\ \A n \in DOMAIN isc.calls :
                    isc.calls[n][1] \notin {"subprocess_call", "service_restart"}
        ELSE /\ Restarted =
                    (IF "v4" \in EnabledVersions
                     THEN << <<"service_restart", "dhcpd">> >> ELSE <<>>)
                    \o (IF "v6" \in EnabledVersions
                        THEN << <<"service_restart", "dhcpd6">> >> ELSE <<>>)
             /\ last.out.v =
                    IntV(BitOr(IF "v4" \in EnabledVersions THEN last.arg.status["v4"] ELSE 0,
                               IF "v6" \in EnabledVersions THEN last.arg.status["v6"] ELSE 0))
             /\ (last.out.v.v # 0) <=> (\E v \in EnabledVersions : last.arg.status[v] # 0)

\* in sync and sync_single_system every call for the restart comes after every
\* call of the write, and nothing is restarted when the handler ended before
\* the write
RestartAfterWrite ==
    last.op \in {"sync", "sync_single_system"} =>
        /\ \A n, m \in DOMAIN isc.calls :
               (/\ isc.calls[n][1] \in {"open", "render"}
                /\ isc.calls[m][1] \in {"subprocess_call", "service_restart"}) => n < m
        /\ Restarted # <<>> => \E n \in DOMAIN isc.calls : isc.calls[n][1] = "open"
        /\ last.out.st # "ok" => isc.calls = <<>>

\* C30: restart_service returns 0 without restarting anything when restart_dhcp
\* is disabled; otherwise it restarts every enabled version, also after a
\* failure, and returns the bitwise OR of the statuses, which is not 0 exactly
\* if a restart failed; in sync and sync_single_system the restart comes after
\* the write of the configuration.
C30_RestartAfterWrite ==
    RestartsAndReturns /\ RestartAfterWrite

\* sync wrote both configurations, the restart of v4 failed with 1, that of v6
\* with 2, and 3 was returned
C30_Witness ==
    /\ last.op = "sync" /\ last.out = Ok(IntV(3))
    /\ last.arg.status = [v \in Versions |-> IF v = "v4" THEN 1 ELSE 2]
    /\ isc.calls = << <<"open", "v4">>, <<"render", "v4">>, <<"open", "v6">>,
                      <<"render", "v6">>, <<"subprocess_call", "dhcpd">>,
                      <<"service_restart", "dhcpd">>, <<"subprocess_call", "dhcpd6">>,
                      <<"service_restart", "dhcpd6">> >>

-----------------------------------------------------------------------------
(* write_configs and a template that cannot be read (C31) *)

\* the calls of the last handler that are about version v
CallsFor(v) == SelectSeq(isc.calls, LAMBDA c : c[1] \in {"open", "logger.error", "render"}
                                               /\ c[2] = v)

\* the write of version v: nothing for a disabled version; for an enabled one
\* the template is opened and then either rendered or the failure is logged
WrittenOrLogged(v) ==
    IF v \notin EnabledVersions THEN CallsFor(v) = <<>>
    ELSE \/ CallsFor(v) = << <<"open", v>>, <<"render", v>> >>
         \/ CallsFor(v) = << <<"open", v>>, <<"logger.error", v>> >>

\* C31: when the template of one DHCP version cannot be read, nothing is
\* rendered for that version, no error leaves write_configs, and the other
\* enabled version is still rendered; a disabled version is never written.
C31_UnreadableTemplate ==
    last.op \in {"sync", "sync_single_system"} =>
        /\ last.out.st \notin {"OSError"}
        /\ last.out.st = "ok" => \A v \in Versions : WrittenOrLogged(v)

\* the template of v4 could not be read, v6 was rendered, and sync returned
C31_Witness ==
    /\ last.op = "sync" /\ last.out.st = "ok"
    /\ CallsFor("v4") = << <<"open", "v4">>, <<"logger.error", "v4">> >>
    /\ CallsFor("v6") = << <<"open", "v6">>, <<"render", "v6">> >>

-----------------------------------------------------------------------------
(* Re-parenting and the resolved memo of the descendants (C32) *)

\* the names the parent setter is called with while resolved views are cached:
\* no parent, another registered profile, and a name that is not registered
ReparentInputs(i) ==
    CASE i = "p2" -> {"", "p4", "zz"}
      [] OTHER -> {"", "p1"}

NextReparent ==
    \/ \E i \in {"p2", "p3"} : \E n \in ReparentInputs(i) : SetParent(i, n)
    \/ \E i \in {"p2", "p3"}, resolved \in BOOLEAN : ToDict(i, resolved)

SpecReparent ==
    /\ \E forest \in Forests : InitGraphOf(forest, GraphObjs)
    /\ [][NextReparent]_vars

\* the resolved view to_dict has just returned is the one computed from the
\* references as they are now
ResolvedViewFresh(i) ==
    (last.op = "to_dict" /\ last.item = i /\ last.arg = Slot(TRUE)) =>
        last.out = to_dict_compute(i, TRUE)

\* C32: with the cache enabled, once the parent of a registered item has been
\* re-assigned, to_dict(resolved=True) of every descendant returns the values
\* resolved through the new logical parent and never a snapshot memoised before
\* the re-assignment. Does not hold: the parent setter cleans the memo of the
\* item itself only.
C32_ReparentInvalidates == \A i \in {"p2", "p3"} : ResolvedViewFresh(i)

\* what does hold: the re-parented item itself never returns a resolved view
\* from before its own re-assignment, as long as its ancestors keep their
\* references
ReparentedItselfFresh ==
    parent["p3"] = "" => ResolvedViewFresh("p3")

-----------------------------------------------------------------------------
(* boot_files: resolution and invalidation (C33) *)

\* the dictionaries the boot_files and fetchable_files setters are called with
FilesInputs(i) ==
    IF i = "p1" THEN {Dict([x \in {"b"} |-> "2"])} ELSE {Dict([x \in {"c"} |-> "3"])}

NextBootFiles ==
    \/ \E i \in {"p1", "p2"}, f \in {"boot_files", "fetchable_files"} :
           \E val \in FilesInputs(i) : SetAttr(i, f, val)
    \/ \E i \in {"p2", "p3"}, resolved \in BOOLEAN : ToDict(i, resolved)

SpecBootFiles ==
    /\ \E forest \in Forests : InitGraphOf(forest, GraphObjs)
    /\ [][NextBootFiles]_vars

\* the entry f of the resolved view to_dict has just returned is the merge of
\* the item's dictionary with those of its logical ancestors as they are now
ResolvedEntryReflects(f) ==
    (last.op = "to_dict" /\ last.arg = Slot(TRUE) /\ last.out.k = "snap") =>
        Ok(last.out.v[f]) = resolve_dict_f(last.item, f, Fuel)

\* C33: boot_files is resolved by merging with the logical parent's boot_files,
\* and with the cache enabled a change of boot_files on a registered parent is
\* reflected in the next to_dict(resolved=True) of each descendant. Does not
\* hold: boot_files is a LazyProperty and its setter invalidates the item's own
\* memo only.
C33_BootFilesReflected == ResolvedEntryReflects("boot_files")

\* what does hold: fetchable_files, an InheritableDictProperty, is reflected
FetchableFilesReflected == ResolvedEntryReflects("fetchable_files")

\* what does hold: a resolved view that is computed, not read from the memo,
\* has boot_files merged with the logical ancestors'
BootFilesMerged ==
    ~last.hit => ResolvedEntryReflects("boot_files")

-----------------------------------------------------------------------------
(* from_dict on a registered item and the memo of its descendants (C34) *)

\* the mappings an initialized item is updated with: an inheritable attribute,
\* an inheritable dictionary, an attribute that is not inherited, and a mapping
\* whose second setter raises TypeError
UpdateInputs ==
    {<< <<"owners", List(<<"admin">>)>> >>,
     << <<"kernel_options", Dict([x \in {"a"} |-> "1"])>> >>,
     << <<"comment", Str("c")>> >>,
     << <<"comment", Str("d")>>, <<"owners", IntV(5)>> >>}

\* from_dict is called on p1 while p1 is initialized
NextUpdate ==
    \/ /\ hasInit["p1"] = "true"
       /\ \E dictionary \in UpdateInputs : FromDict("p1", dictionary)
    \/ \E val \in SetterInputs("owners") : SetAttr("p1", "owners", val)
    \/ \E i \in {"p1", "p2"}, resolved \in BOOLEAN : ToDict(i, resolved)

SpecUpdate == Init /\ [][NextUpdate]_vars

\* no descendant of i holds a resolved snapshot that differs from the view
\* computed from the values as they are now
DescendantsMemoFresh(i) ==
    \A o \in descendants(i) :
        cache[o].res # NoDict => cache[o].res = to_dict_compute(o, TRUE)

\* C34: with the cache enabled, once from_dict has updated an inheritable
\* attribute of a registered, initialized item, no descendant of the item holds
\* a resolved memo snapshot computed from the old value. Does not hold:
\* from_dict switches the interception off while the setters run and ends with
\* clean_cache() without an attribute name.
C34_FromDictInvalidates ==
    (last.op = "from_dict" /\ last.out.st = "ok") => DescendantsMemoFresh(last.item)

\* what does hold: from_dict leaves no snapshot of the updated item itself
FromDictCleansOwn ==
    (last.op = "from_dict" /\ last.out.st = "ok") =>
        cache[last.item] = [raw |-> NoDict, res |-> NoDict]

-----------------------------------------------------------------------------
(* from_dict that raises in the apply loop (C35) *)

\* from_dict has ended, normally or not, with the flag it found: the item is
\* initialized before every call
FlagRestored ==
    last.op = "from_dict" => hasInit[last.item] = "true"

\* the slots of the item hold no snapshot that differs from the fields as
\* from_dict left them
OwnMemoNotOlder ==
    last.op = "from_dict" =>
        \A resolved \in BOOLEAN :
            get_dict_cache(cache, last.item, resolved) \in
                {NoDict, to_dict_compute(last.item, resolved)}

\* C35: for an initialized item, whenever from_dict returns or raises, a setter
\* raising in the middle of the apply loop included, the initialized flag has
\* its previous value again and the item's own memo slots hold no snapshot
\* older than the applied fields. Does not hold: the flag is restored and the
\* memo cleaned on the normal path only.
C35_FlagRestoredOnRaise == FlagRestored /\ OwnMemoNotOlder

\* what does hold: both are true of every from_dict that returns or ends with
\* the KeyError of the keys it could not set
RestoredUnlessSetterRaises ==
    (last.op = "from_dict" /\ last.out.st \in {"ok", "return", "KeyError"}) =>
        C35_FlagRestoredOnRaise

-----------------------------------------------------------------------------
(* Construction with an initial mapping (C36) *)

\* C36: constructing an inheritable item with a non-empty initial mapping of
\* recognized attribute keys succeeds, without the error of rejected keys, and
\* leaves the item initialized with those values stored. Does not hold:
\* Item.__init__ adds is_subobject to the mapping before InheritableItem.__init__
\* has created _is_subobject, so from_dict rejects that key. The constructor
\* that stops in BaseItem.__init__ for want of a class-level _has_initialized is
\* left aside.
C36_KwargsConstructorSucceeds ==
    (/\ ctor.kwargs # NoKwargs
     /\ ctor.pc \in {"raised", "done"}
     /\ ctor.err # "AttributeError") =>
        /\ ctor.err # "KeyError"
        /\ hasInit[ctor.item] = "true"

\* what does hold: the values of the mapping are stored when the constructor
\* ends with the KeyError, and no constructor without a mapping ends with it
SeededBeforeKeyError ==
    /\ ctor.err = "KeyError" =>
           \A f \in DOMAIN ctor.kwargs : attr[ctor.item][f] = ctor.kwargs[f]
    /\ ctor.kwargs = NoKwargs => ctor.err # "KeyError"

-----------------------------------------------------------------------------
(* The uid setter and the table of the collection (C37) *)

\* the names the unregistered object p4 is given: the name of the registered
\* item p2, a name nothing is registered under, and a string the pattern does
\* not match
CopyNames == {<<"p", "2">>, <<"q">>, <<"q", "!">>}

NextUid ==
    \/ \E t \in Threads, i \in {"p2", "p4"}, u \in Uids : UidCall(t, i, u)
    \/ \E t \in Threads : UidAcquire(t)
    \/ \E t \in Threads : UidPop(t)
    \/ \E t \in Threads : UidStore(t)
    \/ \E t \in Threads : UidReinsert(t)
    \/ /\ \A t \in Threads : thr[t].item # "p4"
       /\ \E chars \in CopyNames : SetName("p4", chars)

SpecUid ==
    /\ \E forest \in Forests : InitGraphOf(forest, GraphObjs \ {"p4"})
    /\ [][NextUid]_vars

\* the entry under the name n of the collection ty is touched by this step
EntryChanged(ty, n) == listing'[ty][n] # listing[ty][n]

\* the step takes the object i out of the table, or puts it back, under its
\* own name and nothing else
OwnEntryOnly(i) ==
    \A ty \in CollectionTypes, n \in Names :
        EntryChanged(ty, n) =>
            /\ ty = TypeOf(i)
            /\ n = lower(name[i])
            /\ listing[ty][n] \in {i, NoItem}
            /\ listing'[ty][n] \in {i, NoItem}

\* C37: assigning a uid changes the name-indexed table only by re-inserting the
\* same item under its own name; an assignment to an object that is not the
\* registered one never replaces or removes the registered entry, and no entry
\* under another name is changed. Does not hold: the setter looks the name up,
\* not the object, and pops and overwrites whatever is registered under it.
C37_UidKeepsOtherEntries ==
    [][\A t \in Threads : thr'[t] # thr[t] => OwnEntryOnly(thr[t].item)]_vars

\* what does hold: the assignment to the registered item p2 touches the entry
\* of p2 only, as long as no other object has taken its place in the table
UidOfRegisteredKeepsOthers ==
    [][\A t \in Threads :
           (/\ thr'[t] # thr[t]
            /\ thr[t].item = "p2"
            /\ listing[TypeOf("p2")]["p2"] \in {"p2", NoItem}) => OwnEntryOnly("p2")]_vars

-----------------------------------------------------------------------------
(* serialize and the raw view of to_dict (C38) *)

\* the raw view to_dict has just returned is the one the fields give, with the
\* legacy key of autoinstall_meta in it
RawViewIntact ==
    (last.op = "to_dict" /\ last.arg = Slot(FALSE) /\ last.out.k = "snap") =>
        /\ last.out = to_dict_compute(last.item, FALSE)
        /\ "ks_meta" \in DOMAIN last.out.v

\* C38: serialize() does not change what to_dict returns: with the cache
\* enabled, to_dict(resolved=False) called after serialize() returns a mapping
\* equal to the one returned before it, with the legacy keys kickstart and
\* ks_meta. Does not hold: serialize pops the keys from the mapping the raw
\* memo slot holds.
C38_SerializeKeepsToDict == cache_enabled => RawViewIntact

\* what does hold: without the cache every call computes the view anew
SerializeKeepsComputedView == ~cache_enabled => RawViewIntact

-----------------------------------------------------------------------------
(* The depth of the items of a hierarchy (C39) *)

\* Item.depth (setter): a value that is not an int raises TypeError, an int is
\* stored as it is
SetDepth(i, val) ==
    /\ nops < MaxOps
    /\ IF val.k # "int"
       THEN /\ UNCHANGED <<cache, depth>>
            /\ last' = Op("depth", i, val, Raise("TypeError"), FALSE)
       ELSE /\ cache' = setattr_cache(cache, i, "_depth")
            /\ depth' = [depth EXCEPT ![i] = val.v]
            /\ last' = Op("depth", i, val, Ok(Absent), FALSE)
    /\ nops' = nops + 1
    /\ UNCHANGED <<envVars, objs, listing, name, parent, attr, inmemory, hasInit, settings,
                   cache_enabled, ctor>>

\* the values the depth setter is called with
DepthInputs == {IntV(0), IntV(2), Str("1")}

NextDepth ==
    \/ \E i \in {"p1", "p2", "p3"} : \E n \in ParentInputs(i) : SetParent(i, n)
    \/ \E i \in {"p2", "p3"}, val \in DepthInputs : SetDepth(i, val)

SpecDepth ==
    /\ \E forest \in Forests : InitGraphOf(forest, GraphObjs)
    /\ [][NextDepth]_vars

\* the depth of i is that of the registered item its parent reference names
\* plus one, and 0 when the reference is empty
DepthOfParentPlusOne(i) ==
    IF parent[i] = "" THEN depth[i] = 0
    ELSE ParentOf(i) # NoItem => depth[i] = depth[ParentOf(i)] + 1

\* C39: in every reachable state every item whose parent reference names a
\* registered item has the depth of that parent plus one, and every item with
\* an empty parent reference has depth 0, also after an ancestor was
\* re-parented, a parent was cleared or the depth was set directly. Does not
\* hold: the depth is written once, by the assignment of a non-empty parent.
C39_DepthInvariant == \A i \in {"p1", "p2", "p3", "p4"} : DepthOfParentPlusOne(i)

\* what does hold: right after the assignment of a non-empty parent the item
\* has the depth of that parent plus one
AssignedParentHasDepth ==
    (last.op = "parent" /\ last.out.st = "ok" /\ last.arg # "") =>
        depth[last.item] = depth[ParentOf(last.item)] + 1

-----------------------------------------------------------------------------
(* to_dict interleaved with an attribute write (C40).  Neither takes a lock:  *)
(* a reading thread is between the statements of Item.to_dict while a writing *)
(* thread is between the two statements of Item.__setattr__.                  *)

NoReader == [pc |-> "idle", item |-> NoItem, resolved |-> FALSE, value |-> NoDict]
NoWriter == [pc |-> "idle", item |-> NoItem, field |-> "", value |-> Absent]

\* the reading thread, the writing thread, and whether a step of one was ever
\* taken while the other was inside its call
Reader == IF call.pc = "idle" THEN NoReader ELSE call.rd
Writer == IF call.pc = "idle" THEN NoWriter ELSE call.wr
Overlapped == call.pc # "idle" /\ call.overlapped

InCalls(rd, wr, other) ==
    [pc |-> "threads", rd |-> rd, wr |-> wr,
     overlapped |-> Overlapped \/ other.pc # "idle"]

\* to_dict up to "if cached_result is not None: return cached_result"
ReadBegin(i, resolved) ==
    /\ nops < MaxOps
    /\ Reader.pc = "idle"
    /\ Hydrated(i)
    /\ \E cached_result \in {get_dict_cache(cache, i, resolved)} :
           IF cached_result # NoDict
           THEN /\ call' = InCalls(NoReader, Writer, Writer)
                /\ last' = Op("to_dict", i, Slot(resolved), cached_result, TRUE)
           ELSE /\ call' = InCalls([NoReader EXCEPT !.pc = "computing", !.item = i,
                                                     !.resolved = resolved],
                                   Writer, Writer)
                /\ last' = Op("to_dict_begin", i, Slot(resolved), NoDict, FALSE)
    /\ nops' = nops + 1
    /\ UNCHANGED <<uid, lockVars, isc, objs, listing, name, parent, depth, attr, inmemory,
                   hasInit, cache, settings, cache_enabled, ctor>>

\* to_dict: the loop over the fields and the two legacy keys
ReadCompute ==
    /\ Reader.pc = "computing"
    /\ \E value \in {to_dict_compute(Reader.item, Reader.resolved)} :
           call' = InCalls([Reader EXCEPT !.pc = "computed", !.value = value],
                           Writer, Writer)
    /\ UNCHANGED <<uid, lockVars, isc, objs, listing, name, parent, depth, attr, inmemory,
                   hasInit, cache, settings, cache_enabled, ctor, last, nops>>

\* to_dict: self.cache.set_dict_cache(value, resolved); return value
ReadStore ==
    /\ Reader.pc = "computed"
    /\ cache' = IF Reader.value.k = "snap"
                THEN set_dict_cache(cache, Reader.item, Reader.value, Reader.resolved)
                ELSE cache
    /\ call' = InCalls(NoReader, Writer, Writer)
    /\ last' = Op("to_dict", Reader.item, Slot(Reader.resolved), Reader.value, FALSE)
    /\ UNCHANGED <<uid, lockVars, isc, objs, listing, name, parent, depth, attr, inmemory,
                   hasInit, settings, cache_enabled, ctor, nops>>

\* Item.__setattr__ called by a property setter: self.clean_cache(name)
WriteBegin(i, f, val) ==
    /\ nops < MaxOps
    /\ Writer.pc = "idle"
    /\ hasInit[i] # "unset"
    /\ cache' = setattr_cache(cache, i, "_" \o f)
    /\ call' = InCalls(Reader,
                       [pc |-> "cleaned", item |-> i, field |-> f, value |-> val],
                       Reader)
    /\ last' = Op("setattr_begin", i, f, NoDict, FALSE)
    /\ nops' = nops + 1
    /\ UNCHANGED <<uid, lockVars, isc, objs, listing, name, parent, depth, attr, inmemory,
                   hasInit, settings, cache_enabled, ctor>>

\* Item.__setattr__: super().__setattr__(name, value)
WriteStore ==
    /\ Writer.pc = "cleaned"
    /\ attr' = [attr EXCEPT ![Writer.item][Writer.field] = Writer.value]
    /\ call' = InCalls(Reader, NoWriter, Reader)
    /\ last' = Op("setattr", Writer.item, Writer.field, NoDict, FALSE)
    /\ UNCHANGED <<uid, lockVars, isc, objs, listing, name, parent, depth, inmemory,
                   hasInit, cache, settings, cache_enabled, ctor, nops>>

\* the attributes written while to_dict runs: one that is inherited and one
\* that is not
RaceFields == {"owners", "comment"}

NextRace ==
    \/ \E i \in {"p2", "p3"}, resolved \in BOOLEAN : ReadBegin(i, resolved)
    \/ ReadCompute
    \/ ReadStore
    \/ \E i \in {"p2", "p3"}, f \in RaceFields : \E val \in SetterInputs(f) :
           WriteBegin(i, f, val)
    \/ WriteStore

SpecRace ==
    /\ \E forest \in Forests : InitGraphOf(forest, GraphObjs)
    /\ [][NextRace]_vars

\* every populated memo slot of the items read holds what a computation from
\* the present fields gives
MemoFresh ==
    \A i \in {"p2", "p3"}, resolved \in BOOLEAN :
        get_dict_cache(cache, i, resolved) \in {NoDict, to_dict_compute(i, resolved)}

\* C40: when to_dict on an item interleaves with a write of an attribute of the
\* item, or of an inheritable attribute of an ancestor, then once both have
\* finished every populated memo slot of the item equals a fresh computation
\* from the final state. Does not hold: the snapshot computed before the write
\* is stored after the writer has cleaned the memo.
C40_NoStaleSnapshotAfterRace ==
    (Reader.pc = "idle" /\ Writer.pc = "idle") => MemoFresh

\* what does hold: as long as the two calls never overlapped, the memo is fresh
\* whenever both threads are outside their calls
FreshWithoutOverlap ==
    (Reader.pc = "idle" /\ Writer.pc = "idle" /\ ~Overlapped) => MemoFresh

====
